---- MODULE Spec2Model ----
(***************************************************************************)
(* Model of the usage-logger middleware of ai-sdk-usage-insights: the      *)
(* one-shot wrapper (wrapGenerate), the streaming wrapper (wrapStream)     *)
(* and the SQLite sink (save).  Two source files implement the middleware: *)
(* src/src/usage-logger.ts (impl = "main") and src/unnamed/part_006        *)
(* (impl = "alt"); both are modelled.                                      *)
(*                                                                         *)
(* JavaScript values: a value that may be null/undefined is an option,     *)
(* Null or Val(v); an object is a record whose fields are options.         *)
(***************************************************************************)
EXTENDS Integers, Sequences, FiniteSets, TLC

VARIABLES
    impl,       \* which middleware source created the instance
    db,         \* the llm_calls table: a set of stored rows
    gPc,        \* wrapGenerate: position of the current invocation
    gCall,      \* wrapGenerate: number of the current invocation (LogicalCall)
    gParams,    \* wrapGenerate: params of the current invocation
    gSettled,   \* wrapGenerate: how doGenerate settled (option)
    gErr,       \* wrapGenerate: the `err` bound by the catch clause (option)
    gSave,      \* wrapGenerate: settlement of the pending `await save(row)`
    gOutcome,   \* wrapGenerate: what the caller observed (option)
    gLog,       \* wrapGenerate: save(row) calls made by the current invocation
    sinkRefused, \* the LogicalCalls whose latest save(row) the sink refused
    sPc,        \* wrapStream: position of each streaming call
    sParams,    \* wrapStream: params of each call
    sRest,      \* wrapStream: what doStream resolved with, besides the stream
    source,     \* chunks the underlying stream has emitted, per call
    delivered,  \* chunks enqueued to the consumer of the returned stream
    sError,     \* the error of the returned stream (option), per call
    fullText,   \* closure state (main): let fullText
    reasoningText, \* closure state (main): let reasoningText
    contentJson,   \* closure state (alt): let contentJson
    warnings,   \* closure state (alt): let warnings
    error,      \* closure state (alt): let error
    finalized,  \* rows built on finish chunks, per call, with their position
    immediates, \* the event loop's queue of setImmediate callbacks
    saveCalls,  \* save(row) calls made by callbacks, per call, with the result
    reported,   \* what console.error / process.emitWarning were given
    unhandled,  \* rejections no handler was attached to
    uPc,        \* normUsage on its own: position
    uU,         \* normUsage on its own: the argument u (option)
    uBodyUsage, \* normUsage on its own: the argument bodyUsage (option)
    uOut,       \* normUsage on its own: the value returned (option)
    hPc,        \* a helper called on its own: position
    hIn,        \* a helper called on its own: the arguments
    hOut,       \* a helper called on its own: what the call produced (option)
    dPc,        \* startDashboardServer: position of the call
    dOptions,   \* startDashboardServer: the options and what they point at
    dError,     \* startDashboardServer: what the call rejected with (option)
    dashboardDb, \* dashboard: the Database handle (`db` of startDashboardServer)
    dbCloses,   \* dashboard: number of db.close() calls made
    server,     \* dashboard: the http.Server and its 'close' listeners
    closed,     \* dashboard: closure state `let closed`
    closeCalls, \* dashboard: the promises returned by close(), in call order
    ownerCloses \* dashboard: server.close() calls made by the owner of the server

gvars == <<gPc, gCall, gParams, gSettled, gErr, gSave, gOutcome, gLog>>
svars == <<sPc, sParams, sRest, source, delivered, sError, fullText, reasoningText,
           contentJson, warnings, error, finalized, immediates, saveCalls>>
evars == <<reported, unhandled>>
hvars == <<hPc, hIn, hOut>>
dvars == <<dPc, dOptions, dError, dashboardDb, dbCloses, server, closed, closeCalls, ownerCloses>>
uvars == <<uPc, uU, uBodyUsage, uOut, hvars>>

(***************************************************************************)
(* Bounds                                                                  *)
(***************************************************************************)
MaxCalls == 2
MaxIds == 3
MaxChunks == 3
MaxPairChunks == 2
MaxFairChunks == 1
MaxCloseCalls == 3
MaxOwnerCloses == 2

(***************************************************************************)
(* JavaScript values                                                       *)
(***************************************************************************)
Null == [nil |-> TRUE]
Val(v) == [nil |-> FALSE, v |-> v]

\* o?.f  (o an option of an object)
Get(o, f) == IF o.nil THEN Null ELSE o.v[f]

\* x ?? y
Coalesce(x, y) == IF x.nil THEN y ELSE x

RECURSIVE Join(_)
Join(parts) == IF parts = <<>> THEN "" ELSE Head(parts) \o Join(Tail(parts))

Impls == {"main", "alt"}

(***************************************************************************)
(* Errors.  An error object is identified by where it was made and its     *)
(* message; two objects with equal messages are still different errors.    *)
(***************************************************************************)
MkError(origin, message) == [origin |-> origin, message |-> message, stack |-> origin]

UnderlyingErrors == {MkError("provider", "boom")}
SinkErrors == {MkError("sink", "SQLITE_BUSY")}
ConstraintError == MkError("sink", "SQLITE_CONSTRAINT")
TypeError == MkError("runtime", "TypeError")

(***************************************************************************)
(* Inputs of a one-shot call.  params is the LanguageModelV2CallOptions    *)
(* the SDK hands to the middleware: prompt is a list of messages.          *)
(***************************************************************************)
UserMessage == [role |-> "user", content |-> "hi"]
ToolList == <<[name |-> "lookup"]>>

\* params.prompt is held in two fields: prompt when it is a list of
\* messages, promptText when it is a string; messages and system are the
\* nonstandard keys collapseInputText looks for
MkParams(tags, tools, temperature) ==
    [ prompt          |-> Val(<<UserMessage>>),
      promptText      |-> Null,
      messages        |-> Null,
      system          |-> Null,
      modelId         |-> Null,
      tools           |-> tools,
      temperature     |-> temperature,
      topP            |-> Null,
      maxOutputTokens |-> temperature,
      providerOptions |-> Val([usageLogger |-> Val([tags |-> tags])]),
      providerMetadata |-> Null ]

ParamsSet ==
    { MkParams(Null, Null, Null),
      MkParams(Val([isArray |-> TRUE, items |-> <<"qbr", "analysis">>, str |-> ""]),
               Val(ToolList), Val(1)),
      [MkParams(Null, Null, Null) EXCEPT !.prompt = Null] }

\* result.request: absent, present without a body, or with an echoed body;
\* the body is an object, or the JSON text of that object.
RequestBodies ==
    { [isString |-> FALSE, model |-> Val("deepseek-reasoner"),
       messages |-> Val(<<UserMessage>>), input |-> Null, tools |-> Null],
      [isString |-> TRUE,  model |-> Val("deepseek-reasoner"),
       messages |-> Val(<<UserMessage>>), input |-> Null, tools |-> Null],
      [isString |-> FALSE, model |-> Null, messages |-> Null, input |-> Null,
       tools |-> Val(ToolList)] }

Requests == {Null, Val([body |-> Null, id |-> Null])}
            \cup {Val([body |-> Val(b), id |-> Null]) : b \in RequestBodies}

\* response.body: the provider's raw body, when the provider exposes it.
Message == [content |-> Val("Hello"), reasoning_content |-> Val("because")]
\* A usage object: the SDK's normalized one carries the camelCase counts, a
\* provider's raw one the snake_case counts; a property it lacks is undefined.
EmptyUsage ==
    [ inputTokens |-> Null, promptTokens |-> Null, outputTokens |-> Null,
      completionTokens |-> Null, totalTokens |-> Null,
      cachedInputTokens |-> Null, reasoningTokens |-> Null,
      input_tokens |-> Null, output_tokens |-> Null, total_tokens |-> Null,
      input_tokens_details |-> Null, output_tokens_details |-> Null ]

BodyUsage ==
    [EmptyUsage EXCEPT !.input_tokens = Val(99), !.output_tokens = Val(5),
                       !.output_tokens_details = Val([reasoning_tokens |-> Val(3)])]

MkBody(choices, usage) ==
    [ choices |-> choices, usage |-> usage, model |-> Null,
      temperature |-> Null, top_p |-> Null, max_output_tokens |-> Null ]

ResponseBodies ==
    { MkBody(Null, Null), MkBody(Val(<<>>), Null), MkBody(Val(<<[message |-> Null]>>), Null),
      MkBody(Val(<<[message |-> Val(Message)]>>), Val(BodyUsage)) }

Responses == {Null, Val([body |-> Null, modelId |-> Val("deepseek-reasoner"), id |-> Val("resp_1")])}
             \cup {Val([body |-> Val(b), modelId |-> Null, id |-> Val("resp_1")]) : b \in ResponseBodies}

Usage == [EmptyUsage EXCEPT !.inputTokens = Val(10)]

Contents ==
    { Val(<<[type |-> "reasoning", text |-> "because"], [type |-> "text", text |-> "Hel"],
            [type |-> "text", text |-> "lo"]>>) }

Results ==
    { [ request |-> rq, response |-> rs, text |-> Null, content |-> ct,
        usage |-> Val(Usage), finishReason |-> Val("stop"), warnings |-> Null ]
      : rq \in Requests, rs \in Responses, ct \in Contents }

(***************************************************************************)
(* Field extraction (usage-logger.ts, helpers)                             *)
(***************************************************************************)
\* Mutant: tags default to an empty list.
extractTagsOrEmpty(params) ==
    LET opt == Coalesce(Get(params.providerOptions, "usageLogger"),
                        Get(params.providerMetadata, "usageLogger"))
        tags == Get(opt, "tags")
    IN  IF tags.nil \/ (~tags.v.isArray /\ tags.v.str = "") THEN Val(<<>>)
        ELSE IF tags.v.isArray THEN Val(tags.v.items)
        ELSE Val(<<tags.v.str>>)

\* if (!opt?.tags) return;  an empty string is falsy, an empty list is not
extractTags(params) ==
    LET opt == Coalesce(Get(params.providerOptions, "usageLogger"),
                        Get(params.providerMetadata, "usageLogger"))
        tags == Get(opt, "tags")
    IN  IF tags.nil \/ (~tags.v.isArray /\ tags.v.str = "") THEN Null
        ELSE IF tags.v.isArray THEN Val(tags.v.items)
        ELSE Val(<<tags.v.str>>)

\* Mutant: || in place of ??, so that a count of 0 falls through.
TokenCountFalsy(primary, alias, raw) ==
    IF ~primary.nil /\ primary.v # 0 THEN primary
    ELSE IF ~alias.nil /\ alias.v # 0 THEN alias
    ELSE raw

\* u?.inputTokens ?? u?.promptTokens ?? bodyUsage?.input_tokens ?? null
TokenCount(primary, alias, raw) == Coalesce(primary, Coalesce(alias, raw))

\* Mutant: a missing count is taken as 0 in the sum.
DerivedTotalCoerced(inputTokens, outputTokens) ==
    Val((IF inputTokens.nil THEN 0 ELSE inputTokens.v)
        + (IF outputTokens.nil THEN 0 ELSE outputTokens.v))

\* inputTokens != null && outputTokens != null ? inputTokens + outputTokens : null
DerivedTotal(inputTokens, outputTokens) ==
    IF ~inputTokens.nil /\ ~outputTokens.nil
    THEN Val(inputTokens.v + outputTokens.v) ELSE Null

normUsage(u, bodyUsage) ==
    LET inputTokens ==
            TokenCount(Get(u, "inputTokens"), Get(u, "promptTokens"),
                       Get(bodyUsage, "input_tokens"))
        outputTokens ==
            TokenCount(Get(u, "outputTokens"), Get(u, "completionTokens"),
                       Get(bodyUsage, "output_tokens"))
        totalTokens ==
            Coalesce(Get(u, "totalTokens"),
              Coalesce(Get(bodyUsage, "total_tokens"),
                       DerivedTotal(inputTokens, outputTokens)))
        cachedInputTokens ==
            Coalesce(Get(u, "cachedInputTokens"),
                     Get(Get(bodyUsage, "input_tokens_details"), "cached_tokens"))
        reasoningTokens == Get(u, "reasoningTokens")
        outputReasoningTokens ==
            Coalesce(Get(Get(bodyUsage, "output_tokens_details"), "reasoning_tokens"),
                     Get(u, "reasoningTokens"))
    IN  [ inputTokens |-> inputTokens, outputTokens |-> outputTokens,
          totalTokens |-> totalTokens, cachedInputTokens |-> cachedInputTokens,
          reasoningTokens |-> reasoningTokens,
          outputReasoningTokens |-> outputReasoningTokens ]

IsTextPart(c) == c.type = "text"
TextsOf(parts) == [i \in 1..Len(parts) |-> parts[i].text]

extractTextFromResult(result) ==
    IF ~result.text.nil /\ result.text.v # "" THEN result.text
    ELSE IF ~result.content.nil /\ SelectSeq(result.content.v, IsTextPart) # <<>>
         THEN Val(Join(TextsOf(SelectSeq(result.content.v, IsTextPart))))
         ELSE Null

\* body.choices[0].message is read without a guard: it raises a TypeError when
\* choices is missing or empty, and so does outputs.content when the first
\* choice has no message.
extractTextFromResponseBody(body) ==
    IF body.nil THEN [threw |-> FALSE, text |-> Null, reasoningText |-> Null]
    ELSE IF body.v.choices.nil \/ body.v.choices.v = <<>>
            \/ body.v.choices.v[1].message.nil
         THEN [threw |-> TRUE, text |-> Null, reasoningText |-> Null]
         ELSE [ threw |-> FALSE,
                text |-> body.v.choices.v[1].message.v.content,
                reasoningText |-> body.v.choices.v[1].message.v.reasoning_content ]

\* a property read off the echoed request body; a body that is JSON text has
\* no such property
BodyField(requestBody, f) ==
    IF requestBody.nil THEN Null
    ELSE IF requestBody.v.isString THEN Null ELSE requestBody.v[f]

\* extractToolMeta(params, result, body).requestToolsJson
extractToolMeta(params, requestBody) ==
    [requestToolsJson |-> Coalesce(params.tools, BodyField(requestBody, "tools"))]

pickNumericParams(params, body) ==
    [ temperature     |-> Coalesce(params.temperature, Get(body, "temperature")),
      topP            |-> Coalesce(params.topP, Get(body, "top_p")),
      maxOutputTokens |-> Coalesce(params.maxOutputTokens, Get(body, "max_output_tokens")) ]

(***************************************************************************)
(* Input collation                                                         *)
(***************************************************************************)
JsonOfPart(c) == "{\"type\":\"" \o c.type \o "\",\"text\":\"" \o c.text \o "\"}"

JsonOfMessage(m) == "{\"role\":\"" \o m.role \o "\",\"content\":\"" \o m.content \o "\"}"

RECURSIVE JoinWith(_, _)
JoinWith(parts, sep) ==
    IF parts = <<>> THEN ""
    ELSE IF Len(parts) = 1 THEN parts[1]
    ELSE parts[1] \o sep \o JoinWith(Tail(parts), sep)

\* String.prototype.toUpperCase on the role names
ToUpperCase(str) ==
    CASE str = "system" -> "SYSTEM" [] str = "user" -> "USER"
      [] str = "assistant" -> "ASSISTANT" [] str = "tool" -> "TOOL"
      [] str = "message" -> "MESSAGE" [] OTHER -> str

\* usage-logger.ts: one "[ROLE] content" line per message
collapseInputTextFromPromptArray(promptArr) ==
    JoinWith([i \in 1..Len(promptArr) |->
                 "[" \o ToUpperCase(IF promptArr[i].role = "" THEN "message"
                                    ELSE promptArr[i].role)
                 \o "] " \o promptArr[i].content], "\n")

\* params?.system ? `\n[SYSTEM]\n${params.system}\n` : ''
SystemBlock(params) ==
    IF params.system.nil \/ params.system.v = "" THEN ""
    ELSE "\n[SYSTEM]\n" \o params.system.v \o "\n"

\* m.role is read off every element: a null element raises a TypeError
HasNullElement(list) == \E i \in 1..Len(list) : list[i] = Null

\* whether collapseInputText(params, requestBody) raises
collapseInputTextThrows(params, requestBody) ==
    IF ~params.prompt.nil THEN HasNullElement(params.prompt.v)
    ELSE IF ~params.messages.nil THEN HasNullElement(params.messages.v)
    ELSE IF ~params.promptText.nil THEN FALSE
    ELSE IF ~BodyField(requestBody, "input").nil
         THEN HasNullElement(BodyField(requestBody, "input").v)
         ELSE FALSE

\* usage-logger.ts: params.prompt as a message list, else params.messages,
\* else params.prompt as a string, else the input list of the echoed
\* request body, else undefined
collapseInputText(params, requestBody) ==
    IF ~params.prompt.nil THEN Val(collapseInputTextFromPromptArray(params.prompt.v))
    ELSE IF ~params.messages.nil
         THEN Val(SystemBlock(params) \o collapseInputTextFromPromptArray(params.messages.v))
    ELSE IF ~params.promptText.nil
         THEN Val(SystemBlock(params) \o "[PROMPT]\n" \o params.promptText.v)
    ELSE IF ~BodyField(requestBody, "input").nil
         THEN Val(JoinWith([i \in 1..Len(BodyField(requestBody, "input").v) |->
                      "[" \o ToUpperCase(BodyField(requestBody, "input").v[i].role) \o "] "
                      \o "\"" \o BodyField(requestBody, "input").v[i].content \o "\""], "\n"))
         ELSE Null

\* part_006, try block and finish chunk: JSON.stringify of every message of
\* body.messages ?? body.input ?? params.prompt ?? [], joined by newlines
JsonLines(body, params) ==
    LET inputArray == Coalesce(body.messages, Coalesce(body.input,
                                 Coalesce(params.prompt, Val(<<>>)))).v
    IN  JoinWith([i \in 1..Len(inputArray) |-> JsonOfMessage(inputArray[i])], "\n")

\* part_006, catch clause: role and content of every message of params.prompt
RoleAndContentLines(params) ==
    LET inputPrompt == Coalesce(params.prompt, Val(<<>>)).v
    IN  JoinWith([i \in 1..Len(inputPrompt) |->
                     inputPrompt[i].role \o "\n" \o inputPrompt[i].content], "\n")

(***************************************************************************)
(* Rows (LLMCallRow).  The fields modelled are those the wrappers derive   *)
(* from the call; timestamp, latency and the raw request/response echoes   *)
(* are left out.  contentJson holds result.content (a list of parts) in    *)
(* main and a rendered trace (a string) in alt.                            *)
(***************************************************************************)
Parts(parts) == [isString |-> FALSE, str |-> "", parts |-> parts]
Text(str) == [isString |-> TRUE, str |-> str, parts |-> <<>>]

ModelOfWrappedModel == "deepseek-reasoner"

MkRow(inputText, promptJson, modelId, tags, outputText, content, reasoning, usage, requestTools, picked, finishReason, warns, responseId, err) ==
    [ inputText |-> inputText, promptJson |-> promptJson,
      modelId |-> modelId, tags |-> tags,
      outputText |-> outputText, contentJson |-> content,
      reasoningText |-> reasoning,
      inputTokens |-> usage.inputTokens, outputTokens |-> usage.outputTokens,
      totalTokens |-> usage.totalTokens, cachedInputTokens |-> usage.cachedInputTokens,
      reasoningTokens |-> usage.reasoningTokens,
      outputReasoningTokens |-> usage.outputReasoningTokens,
      requestToolsJson |-> requestTools,
      temperature |-> picked.temperature, topP |-> picked.topP,
      maxOutputTokens |-> picked.maxOutputTokens,
      finishReason |-> finishReason, warnings |-> warns,
      responseId |-> responseId, error |-> err ]

NoUsage ==
    [ inputTokens |-> Null, outputTokens |-> Null, totalTokens |-> Null,
      cachedInputTokens |-> Null, reasoningTokens |-> Null,
      outputReasoningTokens |-> Null ]

ParamsPicked(params) ==
    [ temperature |-> params.temperature, topP |-> params.topP,
      maxOutputTokens |-> params.maxOutputTokens ]

\* { message: String(err?.message ?? err), stack: err?.stack }
ErrorPayload(err) == [message |-> err.message, stack |-> err.stack]

\* Mutant: an error row that keeps the finish reason unset.
ErrorRowWithoutSentinel(params, err) ==
    MkRow(collapseInputText(params, Null), params.prompt,
          params.modelId, extractTags(params), Null, Null, Null, NoUsage,
          params.tools, ParamsPicked(params), Null, Null, Null,
          Val(ErrorPayload(err)))

\* usage-logger.ts, the catch clause of wrapGenerate
ErrorRowMain(params, err) ==
    MkRow(collapseInputText(params, Null), params.prompt,
          params.modelId, extractTags(params), Null, Null, Null, NoUsage,
          params.tools, ParamsPicked(params), Val("error"), Null, Null,
          Val(ErrorPayload(err)))

\* part_006, the catch clause of wrapGenerate
ErrorRowAlt(params, err) ==
    MkRow(Val(RoleAndContentLines(params)), Null,
          Val(ModelOfWrappedModel), extractTags(params), Null, Null, Null, NoUsage,
          params.tools, ParamsPicked(params), Val("error"), Null, Null,
          Val(ErrorPayload(err)))

\* usage-logger.ts, the try block of wrapGenerate after doGenerate resolved:
\* either the row handed to save, or the TypeError raised while building it.
SuccessRowMain(params, result, tags) ==
    LET body == Get(result.response, "body")
        fromBody == extractTextFromResponseBody(body)
        requestBody == Get(result.request, "body")
    IN  IF fromBody.threw \/ result.request.nil \/ requestBody.nil
        THEN [threw |-> TRUE]
        ELSE [ threw |-> FALSE,
               row |-> MkRow(
                   collapseInputText(params, requestBody), params.prompt,
                   Coalesce(BodyField(requestBody, "model"),
                            Get(result.response, "modelId")),
                   tags,
                   Coalesce(extractTextFromResult(result), fromBody.text),
                   IF result.content.nil THEN Null ELSE Val(Parts(result.content.v)),
                   fromBody.reasoningText,
                   normUsage(result.usage, Get(body, "usage")),
                   extractToolMeta(params, requestBody).requestToolsJson,
                   pickNumericParams(params, body),
                   result.finishReason, result.warnings,
                   Get(result.response, "id"), Null) ]

\* part_006, the try block of wrapGenerate after doGenerate resolved
SuccessRowAlt(params, result, tags) ==
    LET requestBody == Get(result.request, "body")
        contentMessages == IF result.content.nil THEN <<>> ELSE result.content.v
    IN  IF result.request.nil \/ requestBody.nil \/ result.usage.nil
        THEN [threw |-> TRUE]
        ELSE [ threw |-> FALSE,
               row |-> MkRow(
                   Val(JsonLines(requestBody.v, params)), Null,
                   Coalesce(requestBody.v.model, Val(ModelOfWrappedModel)),
                   tags, Null,
                   Val(Text(JoinWith([i \in 1..Len(contentMessages) |->
                                         JsonOfPart(contentMessages[i])], "\n"))),
                   Null,
                   [NoUsage EXCEPT !.inputTokens = result.usage.v.inputTokens,
                                   !.outputTokens = result.usage.v.outputTokens,
                                   !.totalTokens = result.usage.v.totalTokens,
                                   !.cachedInputTokens = result.usage.v.cachedInputTokens,
                                   !.reasoningTokens = result.usage.v.reasoningTokens],
                   params.tools, ParamsPicked(params),
                   result.finishReason, result.warnings,
                   Get(result.response, "id"), Null) ]

SuccessRow(params, result, tags) ==
    IF impl = "main" THEN SuccessRowMain(params, result, tags)
    ELSE SuccessRowAlt(params, result, tags)

ErrorRow(params, err) ==
    IF impl = "main" THEN ErrorRowMain(params, err) ELSE ErrorRowAlt(params, err)

(***************************************************************************)
(* The sink (db.ts / part_005): save(row) encodes the row into column      *)
(* values and runs one INSERT.  The id column defaults to a random blob    *)
(* and is the primary key.                                                 *)
(***************************************************************************)
JsonString(str) == "\"" \o str \o "\""

JsonStrings(items) ==
    "[" \o JoinWith([i \in 1..Len(items) |-> JsonString(items[i])], ",") \o "]"

JsonParts(parts) ==
    "[" \o JoinWith([i \in 1..Len(parts) |-> JsonOfPart(parts[i])], ",") \o "]"

JsonTools(tools) ==
    "[" \o JoinWith([i \in 1..Len(tools) |-> "{\"name\":" \o JsonString(tools[i].name) \o "}"],
                    ",") \o "]"

JsonMessages(messages) ==
    "[" \o JoinWith([i \in 1..Len(messages) |-> JsonOfMessage(messages[i])], ",") \o "]"

JsonError(e) ==
    "{\"message\":" \o JsonString(e.message) \o ",\"stack\":" \o JsonString(e.stack) \o "}"

JsonContent(c) == IF c.isString THEN JsonString(c.str) ELSE JsonParts(c.parts)

\* safeJsonStringify: null for a null value, else its JSON text
safeJsonStringify(value, json) == IF value.nil THEN Null ELSE Val(json)

\* A row field of any JavaScript type, carried with its type: kind is what
\* typeof / Buffer.isBuffer tell, text is String(value), json is the text
\* JSON.stringify(value) returns (absent when it raises), truthy is
\* !!value.
JsValue(kind, text, json, truthy) ==
    [kind |-> kind, text |-> text, json |-> json, truthy |-> truthy]

JsNull == JsValue("null", "null", Val("null"), FALSE)
JsUndefined == JsValue("undefined", "undefined", Null, FALSE)
JsString(str) == JsValue("string", str, Val("\"" \o str \o "\""), str # "")
JsNumber(digits) == JsValue("number", digits, Val(digits), digits # "0")
JsBigInt(digits) == JsValue("bigint", digits, Null, digits # "0")
JsBuffer(str) == JsValue("buffer", str, Val("{\"type\":\"Buffer\"}"), TRUE)
JsBoolean(b) == JsValue("boolean", IF b THEN "true" ELSE "false", Val(IF b THEN "true" ELSE "false"), b)
JsObject(json) == JsValue("object", "[object Object]", Val(json), TRUE)
JsStringList(items) == JsValue("object", JoinWith(items, ","), Val(JsonStrings(items)), TRUE)
\* an object that refers to itself: JSON.stringify raises a TypeError
JsCyclic == JsValue("object", "[object Object]", Null, TRUE)

\* what better-sqlite3 binds: numbers, strings, bigints, buffers and null
StorableKinds == {"null", "string", "number", "bigint", "buffer"}

\* ensureSqliteCompatible.  For a field carried with its type: null and
\* undefined become null, strings, numbers, bigints and buffers are kept,
\* booleans become 1 or 0, anything else its String() form.  For a field
\* held as an option of a string or number: null for none, else the value.
ensureSqliteCompatible(value) ==
    IF "kind" \in DOMAIN value
    THEN (IF value.kind \in {"null", "undefined"} THEN JsNull
          ELSE IF value.kind \in {"string", "number", "bigint", "buffer"} THEN value
          ELSE IF value.kind = "boolean" THEN JsNumber(IF value.truthy THEN "1" ELSE "0")
          ELSE JsString(value.text))
    ELSE IF value.nil THEN Null ELSE value

\* db.ts, safeJsonStringify of a field carried with its type: null for null
\* and undefined, the JSON text, or, when JSON.stringify raises, a warning
\* and String(value)
SafeEncoded(value) ==
    IF value.kind \in {"null", "undefined"} THEN [warned |-> FALSE, value |-> JsNull]
    ELSE IF ~value.json.nil THEN [warned |-> FALSE, value |-> JsString(value.json.v)]
    ELSE [warned |-> TRUE, value |-> JsString(value.text)]

\* How save derives the bound value of each row field
PlainFields == {"modelId", "inputText", "outputText", "temperature"}
JsonFields == {"promptJson", "contentJson", "requestToolsJson"}
JsonIfTruthyFields == {"tags", "warnings", "error"}
FlagFields == {"parallelToolCalls"}
RowFields == PlainFields \cup JsonFields \cup JsonIfTruthyFields \cup FlagFields

\* the flag bound by its truthiness alone: row.parallelToolCalls ? 1 : 0
FlagOfTruthiness(value) == JsNumber(IF value.truthy THEN "1" ELSE "0")

\* row.parallelToolCalls == null ? null : (row.parallelToolCalls ? 1 : 0)
FlagOf(value) ==
    IF value.kind \in {"null", "undefined"} THEN JsNull
    ELSE JsNumber(IF value.truthy THEN "1" ELSE "0")

\* db.ts: the value save binds for a field; nothing raises here
BoundByDb(field, value) ==
    IF field \in PlainFields
    THEN [threw |-> FALSE, warned |-> FALSE, bound |-> ensureSqliteCompatible(value)]
    ELSE IF field \in JsonFields
    THEN [threw |-> FALSE, warned |-> SafeEncoded(value).warned,
          bound |-> ensureSqliteCompatible(SafeEncoded(value).value)]
    ELSE IF field \in JsonIfTruthyFields
    THEN (IF value.truthy
          THEN [threw |-> FALSE, warned |-> SafeEncoded(value).warned,
                bound |-> ensureSqliteCompatible(SafeEncoded(value).value)]
          ELSE [threw |-> FALSE, warned |-> FALSE, bound |-> ensureSqliteCompatible(JsNull)])
    ELSE [threw |-> FALSE, warned |-> FALSE, bound |-> ensureSqliteCompatible(FlagOf(value))]

\* part_005: row.x ?? null for a plain field, JSON.stringify(row.x) for a
\* serialized one, which raises when the value cannot be encoded
BoundByOldDb(field, value) ==
    IF field \in PlainFields
    THEN [threw |-> FALSE, warned |-> FALSE,
          bound |-> IF value.kind \in {"null", "undefined"} THEN JsNull ELSE value]
    ELSE IF field \in FlagFields
    THEN [threw |-> FALSE, warned |-> FALSE, bound |-> FlagOf(value)]
    ELSE IF (field \in JsonFields /\ value.kind \in {"null", "undefined"})
            \/ (field \in JsonIfTruthyFields /\ ~value.truthy)
    THEN [threw |-> FALSE, warned |-> FALSE, bound |-> JsNull]
    ELSE IF value.json.nil
    THEN [threw |-> TRUE, warned |-> FALSE, bound |-> JsNull]
    ELSE [threw |-> FALSE, warned |-> FALSE, bound |-> JsString(value.json.v)]

Sinks == {"db.ts", "part_005"}

\* save(row) as far as one field goes: the value is derived, then
\* insert.run binds it, raising a TypeError for a value it cannot bind
SaveOutcome(sink, field, value) ==
    LET derived == IF sink = "db.ts" THEN BoundByDb(field, value)
                   ELSE BoundByOldDb(field, value)
    IN  [ threw |-> derived.threw \/ derived.bound.kind \notin StorableKinds,
          warned |-> derived.warned,
          bound |-> derived.bound ]

\* the JSON text of a nullable field, computed only when there is a value
PromptJson(row) == IF row.promptJson.nil THEN "" ELSE JsonMessages(row.promptJson.v)
TagsJson(row) == IF row.tags.nil THEN "" ELSE JsonStrings(row.tags.v)
ContentJson(row) == IF row.contentJson.nil THEN "" ELSE JsonContent(row.contentJson.v)
ToolsJson(row) == IF row.requestToolsJson.nil THEN "" ELSE JsonTools(row.requestToolsJson.v)
WarningsJson(row) == IF row.warnings.nil THEN "" ELSE JsonStrings(row.warnings.v)
ErrorJson(row) == IF row.error.nil THEN "" ELSE JsonError(row.error.v)

Columns(row) ==
    [ model_id        |-> ensureSqliteCompatible(row.modelId),
      tags_json       |-> ensureSqliteCompatible(safeJsonStringify(row.tags, TagsJson(row))),
      input_text      |-> ensureSqliteCompatible(row.inputText),
      prompt_json     |-> ensureSqliteCompatible(safeJsonStringify(row.promptJson, PromptJson(row))),
      output_text     |-> ensureSqliteCompatible(row.outputText),
      content_json    |-> ensureSqliteCompatible(safeJsonStringify(row.contentJson, ContentJson(row))),
      reasoning_text  |-> ensureSqliteCompatible(row.reasoningText),
      input_tokens    |-> ensureSqliteCompatible(row.inputTokens),
      output_tokens   |-> ensureSqliteCompatible(row.outputTokens),
      total_tokens    |-> ensureSqliteCompatible(row.totalTokens),
      cached_input_tokens |-> ensureSqliteCompatible(row.cachedInputTokens),
      reasoning_tokens |-> ensureSqliteCompatible(row.reasoningTokens),
      output_reasoning_tokens |-> ensureSqliteCompatible(row.outputReasoningTokens),
      request_tools_json |-> ensureSqliteCompatible(safeJsonStringify(row.requestToolsJson, ToolsJson(row))),
      temperature     |-> ensureSqliteCompatible(row.temperature),
      top_p           |-> ensureSqliteCompatible(row.topP),
      max_output_tokens |-> ensureSqliteCompatible(row.maxOutputTokens),
      finish_reason   |-> ensureSqliteCompatible(row.finishReason),
      warnings_json   |-> ensureSqliteCompatible(safeJsonStringify(row.warnings, WarningsJson(row))),
      response_id     |-> ensureSqliteCompatible(row.responseId),
      error_json      |-> ensureSqliteCompatible(safeJsonStringify(row.error, ErrorJson(row))) ]

IdSpace == 1..MaxIds
UsedIds == {r.id : r \in db}

\* DEFAULT (lower(hex(randomblob(16)))): any value of the id space.  Unused
\* ids are interchangeable, so the smallest one stands for all of them.
RandomIds ==
    UsedIds \cup (IF IdSpace \ UsedIds = {} THEN {}
                  ELSE {CHOOSE i \in IdSpace \ UsedIds : \A j \in IdSpace \ UsedIds : i <= j})

\* Mutant: the id column without its PRIMARY KEY constraint.
PrimaryKeyNotEnforced(id) == TRUE

\* id TEXT PRIMARY KEY: an INSERT whose id is already in the table fails.
PrimaryKeyHolds(id) == id \notin UsedIds

\* The ways one save(row) can end: the row is inserted under a new id, the
\* INSERT is refused by the primary key, or the database raises (busy, full,
\* closed).  `call` tags the stored row with the LogicalCall it belongs to.
SaveResults(row, call) ==
    { IF PrimaryKeyHolds(id)
      THEN [ok |-> TRUE, err |-> Null,
            db |-> db \cup {[id |-> id, call |-> call, cols |-> Columns(row)]}]
      ELSE [ok |-> FALSE, err |-> Val(ConstraintError), db |-> db]
      : id \in RandomIds }
    \cup {[ok |-> FALSE, err |-> Val(e), db |-> db] : e \in SinkErrors}

(***************************************************************************)
(* Inputs of a streaming call                                              *)
(***************************************************************************)
Streams == {1, 2}

\* A stream part.  Every part carries a type; the other fields are those of
\* its type (delta, usage and finishReason, error, warnings).
MkChunk(type, delta, usage, finishReason, err, warns) ==
    [ type |-> type, delta |-> delta, usage |-> usage,
      finishReason |-> finishReason, error |-> err, warnings |-> warns ]

TextDelta(d) == MkChunk("text-delta", d, Null, Null, Null, Null)
ReasoningDelta(d) == MkChunk("reasoning-delta", d, Null, Null, Null, Null)
Finish(usage) == MkChunk("finish", "", usage, Val("stop"), Null, Null)
ErrorChunk == MkChunk("error", "", Null, Null, Val(MkError("provider", "overloaded")), Null)
ToolInputDelta(d) == MkChunk("tool-input-delta", d, Null, Null, Null, Null)
ToolInputStart == MkChunk("tool-input-start", "", Null, Null, Null, Null)
ToolInputEnd == MkChunk("tool-input-end", "", Null, Null, Null, Null)
StreamStartWith(warns) == MkChunk("stream-start", "", Null, Null, Null, warns)
StreamStart == MkChunk("stream-start", "", Null, Null, Null, Val(<<"unsupported-setting">>))

Chunks ==
    { TextDelta(""), TextDelta("Hel"), TextDelta("lo"),
      ReasoningDelta("be"), ReasoningDelta("cause"),
      ToolInputDelta("{}"), Finish(Val(Usage)), Finish(Null), ErrorChunk }

\* What doStream resolves with besides the stream: request and response.
StreamRequests ==
    { Null, Val([body |-> Null, id |-> Null]),
      Val([body |-> Val([isString |-> FALSE, model |-> Val("deepseek-reasoner"),
                         messages |-> Val(<<UserMessage>>), input |-> Null, tools |-> Null]),
           id |-> Null]) }

StreamResponses ==
    { Null, Val([body |-> Val(MkBody(Null, Val(BodyUsage))), modelId |-> Null,
                 id |-> Val("resp_1")]) }

Rests ==
    { [request |-> rq, response |-> rs, warnings |-> Null]
      : rq \in StreamRequests, rs \in StreamResponses }

StreamParams == {MkParams(Null, Null, Null)}

(***************************************************************************)
(* wrapGenerate.  One invocation runs at a time in this part of the model; *)
(* gCall counts the invocations made so far.  Each action is one run of    *)
(* the async function between two awaits; save(row) has no await inside,   *)
(* so the INSERT happens in the run that calls it.                         *)
(***************************************************************************)
GenerateCall(n) == [path |-> "generate", n |-> n]

Resolved(value) == Val([resolved |-> TRUE, value |-> value])
Rejected(e) == Val([resolved |-> FALSE, error |-> e])

\* const started = Date.now(); const tags = extractTags(params);
\* await doGenerate()
WrapGenerate(p) ==
    /\ gPc \in {"idle", "done"}
    /\ gCall < MaxCalls
    /\ gCall' = gCall + 1
    /\ gParams' = p
    /\ gPc' = "doGenerate"
    /\ gSettled' = Null
    /\ gErr' = Null
    /\ gSave' = Null
    /\ gOutcome' = Null
    /\ gLog' = <<>>
    /\ UNCHANGED <<uvars, evars, impl, dvars, db, sinkRefused, svars>>

\* Mutant: save(row) called without await, so that the wrapper goes on
\* before the INSERT has run.
CallSaveNotAwaited(row, nextPc) ==
    /\ gSave' = Val([ok |-> TRUE, err |-> Null])
    /\ gPc' = nextPc
    /\ UNCHANGED <<db, gLog, sinkRefused>>

\* await save(row), called from the try block or from the catch clause
CallSave(row, nextPc) ==
    \E res \in SaveResults(row, GenerateCall(gCall)) :
        /\ db' = res.db
        /\ gSave' = Val([ok |-> res.ok, err |-> res.err])
        /\ gLog' = Append(gLog, [row |-> row, ok |-> res.ok])
        /\ sinkRefused' = IF res.ok THEN sinkRefused \ {GenerateCall(gCall)}
                          ELSE sinkRefused \cup {GenerateCall(gCall)}
        /\ gPc' = nextPc

\* Mutant: a catch clause that rethrows without persisting the error row.
CatchClauseWithoutSave(err) ==
    /\ gErr' = Val(err)
    /\ gSave' = Val([ok |-> TRUE, err |-> Null])
    /\ gPc' = "awaitSaveInCatch"
    /\ UNCHANGED <<db, gLog, sinkRefused>>

\* catch (err) { const row = ...; await save(row); ...
CatchClause(err) ==
    /\ gErr' = Val(err)
    /\ CallSave(ErrorRow(gParams, err), "awaitSaveInCatch")

\* doGenerate resolved: build the row and call save; a TypeError raised
\* while building lands in the catch clause of the same try.
DoGenerateResolves(result) ==
    /\ gPc = "doGenerate"
    /\ gSettled' = Resolved(result)
    /\ LET built == SuccessRow(gParams, result, extractTags(gParams))
       IN  IF built.threw
           THEN CatchClause(TypeError)
           ELSE /\ CallSave(built.row, "awaitSave")
                /\ gErr' = gErr
    /\ UNCHANGED <<uvars, evars, impl, dvars, gCall, gParams, gOutcome, svars>>

\* doGenerate rejected
DoGenerateRejects(e) ==
    /\ gPc = "doGenerate"
    /\ gSettled' = Rejected(e)
    /\ CatchClause(e)
    /\ UNCHANGED <<uvars, evars, impl, dvars, gCall, gParams, gOutcome, svars>>

\* await save(row) fulfilled in the try block: return result
ReturnResult ==
    /\ gPc = "awaitSave"
    /\ gSave.v.ok
    /\ gOutcome' = Resolved(gSettled.v.value)
    /\ gPc' = "done"
    /\ UNCHANGED <<uvars, evars, impl, dvars, db, sinkRefused, gCall, gParams, gSettled, gErr, gSave, gLog, svars>>

\* await save(row) rejected in the try block: the rejection is caught by
\* the catch clause of the same try
SaveRejectsInTry ==
    /\ gPc = "awaitSave"
    /\ ~gSave.v.ok
    /\ CatchClause(gSave.v.err.v)
    /\ UNCHANGED <<uvars, evars, impl, dvars, gCall, gParams, gSettled, gOutcome, svars>>

\* await save(row) fulfilled in the catch clause: throw err
ThrowErr ==
    /\ gPc = "awaitSaveInCatch"
    /\ gSave.v.ok
    /\ gOutcome' = Rejected(gErr.v)
    /\ gPc' = "done"
    /\ UNCHANGED <<uvars, evars, impl, dvars, db, sinkRefused, gCall, gParams, gSettled, gErr, gSave, gLog, svars>>

\* await save(row) rejected in the catch clause: nothing catches it
SaveRejectsInCatch ==
    /\ gPc = "awaitSaveInCatch"
    /\ ~gSave.v.ok
    /\ gOutcome' = Rejected(gSave.v.err.v)
    /\ gPc' = "done"
    /\ UNCHANGED <<uvars, evars, impl, dvars, db, sinkRefused, gCall, gParams, gSettled, gErr, gSave, gLog, svars>>

(***************************************************************************)
(* wrapStream.  The returned stream is the underlying stream piped through *)
(* a TransformStream; transform(chunk, controller) runs once per chunk, in *)
(* arrival order, and the callbacks given to setImmediate run later, in    *)
(* the order they were scheduled.                                          *)
(***************************************************************************)
StreamCall(s) == [path |-> "stream", n |-> s]

\* Mutant: fragments joined in the wrong order.
PrependText(text, delta) == delta \o text

\* fullText += chunk.delta
AppendText(text, delta) == text \o delta

\* Mutant: reasoning fragments joined in the wrong order.
PrependReasoning(reasoning, delta) == Val(delta \o Coalesce(reasoning, Val("")).v)

\* reasoningText = (reasoningText ?? '') + chunk.delta
AppendReasoning(reasoning, delta) == Val(Coalesce(reasoning, Val("")).v \o delta)

\* Mutant: an error chunk finalizes the row as well.
FinalizesOnErrorToo(chunk) == chunk.type \in {"finish", "error"}

\* if (chunk?.type === 'finish')
Finalizes(chunk) == chunk.type = "finish"

\* usage-logger.ts: (rest as any)?.request?.body.model raises a TypeError
\* when the request is there and its body is not.
FinishThrowsMain(rest) == ~rest.request.nil /\ rest.request.v.body.nil

\* part_006: request.body.model and chunk.usage.inputTokens are read
\* without a guard.
FinishThrowsAlt(rest, chunk) ==
    rest.request.nil \/ rest.request.v.body.nil \/ chunk.usage.nil

\* usage-logger.ts: the row built when a finish chunk is transformed
StreamRowMain(params, rest, tags, text, reasoning, chunk) ==
    LET body == Get(rest.response, "body")
        requestBody == Get(rest.request, "body")
        bodyUsage == Coalesce(chunk.usage, Get(body, "usage"))
    IN  MkRow(collapseInputText(params, requestBody), params.prompt,
              Coalesce(BodyField(requestBody, "model"), Get(body, "model")),
              tags,
              IF text = "" THEN Null ELSE Val(text),
              Null,
              Coalesce(reasoning, Null),
              normUsage(chunk.usage, bodyUsage),
              extractToolMeta(params, requestBody).requestToolsJson,
              pickNumericParams(params, body),
              chunk.finishReason,
              Coalesce(rest.warnings, Null),
              Get(rest.response, "id"),
              Null)

\* part_006: the row built when a finish chunk is transformed
StreamRowAlt(params, rest, tags, trace, warns, err, chunk) ==
    MkRow(Val(JsonLines(rest.request.v.body.v, params)), Null,
          Coalesce(rest.request.v.body.v.model, Val(ModelOfWrappedModel)),
          tags, Null, Val(Text(trace)), Null,
          [NoUsage EXCEPT !.inputTokens = chunk.usage.v.inputTokens,
                          !.outputTokens = chunk.usage.v.outputTokens,
                          !.totalTokens = chunk.usage.v.totalTokens,
                          !.cachedInputTokens = chunk.usage.v.cachedInputTokens,
                          !.reasoningTokens = chunk.usage.v.reasoningTokens],
          params.tools, ParamsPicked(params),
          chunk.finishReason, warns, Get(rest.response, "id"), err)

\* Mutant: error chunks are forwarded without being recorded.
ForgetError(current, chunk) == current

\* part_006: if (chunk.type == 'error') { error = chunk.error }
RecordError(current, chunk) == IF chunk.type = "error" THEN chunk.error ELSE current

\* Mutant: only the first stream-start chunk is looked at.
KeepFirstWarnings(current, chunk) ==
    IF chunk.type = "stream-start" /\ current.nil THEN chunk.warnings ELSE current

\* part_006: if (chunk.type == 'stream-start') { warnings = chunk.warnings }
RecordWarnings(current, chunk) ==
    IF chunk.type = "stream-start" THEN chunk.warnings ELSE current

\* part_006: what one chunk adds to the contentJson trace
TraceOf(chunk) ==
    (IF chunk.type = "reasoning-start" THEN "Reasoning\n" ELSE "")
    \o (IF chunk.type = "reasoning-delta" THEN chunk.delta ELSE "")
    \o (IF chunk.type = "reasoning-end" THEN "\n" ELSE "")
    \o (IF chunk.type = "text-start" THEN "Model Response\n" ELSE "")
    \o (IF chunk.type = "text-delta" THEN chunk.delta ELSE "")
    \o (IF chunk.type = "reasoning-end" THEN "\n" ELSE "")
    \o (IF chunk.type = "tool-input-start" THEN "Model Tool call\n" ELSE "")
    \o (IF chunk.type = "tool-input-delta" THEN chunk.delta ELSE "")
    \o (IF chunk.type = "tool-input-end" THEN "\n" ELSE "")

\* const started = Date.now(); const tags = extractTags(params);
\* await doStream()
WrapStream(s, p) ==
    /\ sPc[s] = "idle"
    /\ sPc' = [sPc EXCEPT ![s] = "doStream"]
    /\ sParams' = [sParams EXCEPT ![s] = Val(p)]
    /\ UNCHANGED <<uvars, evars, impl, dvars, db, sinkRefused, gvars, sRest, source, delivered, sError,
                   fullText, reasoningText, contentJson, warnings, error,
                   finalized, immediates, saveCalls>>

\* doStream resolved: the closure state is created and the piped stream is
\* returned to the caller
DoStreamResolves(s, rest) ==
    /\ sPc[s] = "doStream"
    /\ sPc' = [sPc EXCEPT ![s] = "open"]
    /\ sRest' = [sRest EXCEPT ![s] = Val(rest)]
    /\ fullText' = [fullText EXCEPT ![s] = ""]
    /\ reasoningText' = [reasoningText EXCEPT ![s] = Null]
    /\ contentJson' = [contentJson EXCEPT ![s] = ""]
    /\ warnings' = [warnings EXCEPT ![s] = Null]
    /\ error' = [error EXCEPT ![s] = Null]
    /\ UNCHANGED <<uvars, evars, impl, dvars, db, sinkRefused, gvars, sParams, source, delivered, sError,
                   finalized, immediates, saveCalls>>

\* Mutant: wrapStream catches the rejection and saves an error row before
\* rethrowing, as the catch clause of wrapGenerate does.
DoStreamRejectsWithErrorRow(s, e) ==
    /\ sPc[s] = "doStream"
    /\ sPc' = [sPc EXCEPT ![s] = "rejected"]
    /\ sError' = [sError EXCEPT ![s] = Val(e)]
    /\ \E res \in SaveResults(ErrorRow(sParams[s].v, e), StreamCall(s)) : db' = res.db
    /\ UNCHANGED <<uvars, evars, impl, dvars, sinkRefused, gvars, sParams, sRest, source, delivered,
                   fullText, reasoningText, contentJson, warnings, error,
                   finalized, immediates, saveCalls>>

\* doStream rejected: wrapStream rejects with the same error
DoStreamRejects(s, e) ==
    /\ sPc[s] = "doStream"
    /\ sPc' = [sPc EXCEPT ![s] = "rejected"]
    /\ sError' = [sError EXCEPT ![s] = Val(e)]
    /\ UNCHANGED <<uvars, evars, impl, dvars, db, sinkRefused, gvars, sParams, sRest, source, delivered,
                   fullText, reasoningText, contentJson, warnings, error,
                   finalized, immediates, saveCalls>>

\* Mutant: the row is saved inside transform, before the chunk is enqueued
\* (await save(row) in place of setImmediate).
FinishWithInlineSave(s, chunk, throws, row) ==
    IF Finalizes(chunk) /\ throws
    THEN /\ sPc' = [sPc EXCEPT ![s] = "errored"]
         /\ sError' = [sError EXCEPT ![s] = Val(TypeError)]
         /\ UNCHANGED <<delivered, finalized, immediates, db, sinkRefused, saveCalls>>
    ELSE IF Finalizes(chunk)
    THEN \E res \in SaveResults(row, StreamCall(s)) :
            /\ db' = res.db
            /\ saveCalls' = [saveCalls EXCEPT ![s] = Append(@, [row |-> row, ok |-> res.ok])]
            /\ sinkRefused' = IF res.ok THEN sinkRefused \ {StreamCall(s)}
                              ELSE sinkRefused \cup {StreamCall(s)}
            /\ finalized' = [finalized EXCEPT
                   ![s] = Append(@, [row |-> row, at |-> Len(source'[s])])]
            /\ delivered' = [delivered EXCEPT ![s] = IF res.ok THEN Append(@, chunk) ELSE @]
            /\ sPc' = [sPc EXCEPT ![s] = IF res.ok THEN @ ELSE "errored"]
            /\ sError' = [sError EXCEPT ![s] = IF res.ok THEN @ ELSE res.err]
            /\ UNCHANGED immediates
    ELSE /\ delivered' = [delivered EXCEPT ![s] = Append(@, chunk)]
         /\ UNCHANGED <<finalized, immediates, sPc, sError, db, sinkRefused, saveCalls>>

\* Mutant: a callback is dropped when another one is still pending.
ScheduleUnlessPending(queue, task) == IF queue = <<>> THEN <<task>> ELSE queue

\* setImmediate(callback): the callback joins the event loop's queue
SetImmediate(queue, task) == Append(queue, task)

\* The end of transform(chunk, controller): on a finish chunk the row is
\* built and its save scheduled with setImmediate, then the chunk is
\* enqueued; a TypeError raised while building errors the returned stream
\* before the chunk is enqueued.
FinishOrForward(s, chunk, throws, row) ==
    IF Finalizes(chunk) /\ throws
    THEN /\ sPc' = [sPc EXCEPT ![s] = "errored"]
         /\ sError' = [sError EXCEPT ![s] = Val(TypeError)]
         /\ UNCHANGED <<delivered, finalized, immediates, db, sinkRefused, saveCalls>>
    ELSE /\ delivered' = [delivered EXCEPT ![s] = Append(@, chunk)]
         /\ IF Finalizes(chunk)
            THEN /\ finalized' = [finalized EXCEPT
                       ![s] = Append(@, [row |-> row, at |-> Len(source'[s])])]
                 /\ immediates' = SetImmediate(immediates, [stream |-> s, row |-> row])
            ELSE UNCHANGED <<finalized, immediates>>
         /\ UNCHANGED <<sPc, sError, db, sinkRefused, saveCalls>>

\* Mutant: what a chunk adds is put in front of the trace.
PrependTrace(trace, chunk) == TraceOf(chunk) \o trace

\* part_006: contentJson += ...
AppendTrace(trace, chunk) == trace \o TraceOf(chunk)

\* Mutant: the aggregation variables declared once for the middleware, so
\* that every stream's transform writes the same ones.
SharedByAllCalls(s) == Streams

\* let fullText, reasoningText (usage-logger.ts) and let contentJson,
\* warnings, error (part_006) are declared inside wrapStream: the calls
\* whose aggregation state the transform of call s writes
ClosureOf(s) == {s}

\* usage-logger.ts: transform(chunk, controller)
TransformMain(s, chunk) ==
    /\ impl = "main"
    /\ sPc[s] = "open"
    /\ Len(source[s]) < MaxChunks
    /\ source' = [source EXCEPT ![s] = Append(@, chunk)]
    /\ fullText' = [t \in Streams |->
           IF t \in ClosureOf(s) /\ chunk.type = "text-delta"
           THEN AppendText(fullText[t], chunk.delta) ELSE fullText[t]]
    /\ reasoningText' = [t \in Streams |->
           IF t \in ClosureOf(s) /\ chunk.type = "reasoning-delta"
           THEN AppendReasoning(reasoningText[t], chunk.delta) ELSE reasoningText[t]]
    /\ FinishOrForward(s, chunk, FinishThrowsMain(sRest[s].v),
           StreamRowMain(sParams[s].v, sRest[s].v, extractTags(sParams[s].v),
                         fullText'[s], reasoningText'[s], chunk))
    /\ UNCHANGED <<uvars, evars, impl, dvars, gvars, sParams, sRest,
                   contentJson, warnings, error>>

\* part_006: transform(chunk, controller)
TransformAlt(s, chunk) ==
    /\ impl = "alt"
    /\ sPc[s] = "open"
    /\ Len(source[s]) < MaxChunks
    /\ source' = [source EXCEPT ![s] = Append(@, chunk)]
    /\ contentJson' = [t \in Streams |->
           IF t \in ClosureOf(s) THEN AppendTrace(contentJson[t], chunk) ELSE contentJson[t]]
    /\ warnings' = [t \in Streams |->
           IF t \in ClosureOf(s) THEN RecordWarnings(warnings[t], chunk) ELSE warnings[t]]
    /\ error' = [t \in Streams |->
           IF t \in ClosureOf(s) THEN RecordError(error[t], chunk) ELSE error[t]]
    /\ LET throws == FinishThrowsAlt(sRest[s].v, chunk)
       IN  FinishOrForward(s, chunk, throws,
               IF Finalizes(chunk) /\ ~throws
               THEN StreamRowAlt(sParams[s].v, sRest[s].v, extractTags(sParams[s].v),
                                 contentJson'[s], warnings'[s], error'[s], chunk)
               ELSE Null)
    /\ UNCHANGED <<uvars, evars, impl, dvars, gvars, sParams, sRest,
                   fullText, reasoningText>>

\* the underlying stream ends: the returned stream closes (no flush handler)
SourceCloses(s) ==
    /\ sPc[s] = "open"
    /\ sPc' = [sPc EXCEPT ![s] = "closed"]
    /\ UNCHANGED <<uvars, evars, impl, dvars, db, sinkRefused, gvars, sParams, sRest, source, delivered,
                   sError, fullText, reasoningText, contentJson, warnings, error,
                   finalized, immediates, saveCalls>>

\* the underlying stream errors: the error passes through the pipe
SourceErrors(s, e) ==
    /\ sPc[s] = "open"
    /\ sPc' = [sPc EXCEPT ![s] = "errored"]
    /\ sError' = [sError EXCEPT ![s] = Val(e)]
    /\ UNCHANGED <<uvars, evars, impl, dvars, db, sinkRefused, gvars, sParams, sRest, source, delivered,
                   fullText, reasoningText, contentJson, warnings, error,
                   finalized, immediates, saveCalls>>

\* the consumer cancels the returned stream
ConsumerCancels(s) ==
    /\ sPc[s] = "open"
    /\ sPc' = [sPc EXCEPT ![s] = "cancelled"]
    /\ UNCHANGED <<uvars, evars, impl, dvars, db, sinkRefused, gvars, sParams, sRest, source, delivered,
                   sError, fullText, reasoningText, contentJson, warnings, error,
                   finalized, immediates, saveCalls>>

\* where the callback reports a failed save: console.error in
\* usage-logger.ts, process.emitWarning in part_006
SideChannel == IF impl = "main" THEN "console.error" ELSE "process.emitWarning"

\* Mutant: the callback awaits save(row) without the try/catch around it.
RunImmediateWithoutCatch ==
    /\ immediates # <<>>
    /\ LET task == Head(immediates)
       IN  \E res \in SaveResults(task.row, StreamCall(task.stream)) :
               /\ db' = res.db
               /\ saveCalls' = [saveCalls EXCEPT
                      ![task.stream] = Append(@, [row |-> task.row, ok |-> res.ok])]
               /\ sinkRefused' = IF res.ok THEN sinkRefused \ {StreamCall(task.stream)}
                                 ELSE sinkRefused \cup {StreamCall(task.stream)}
               /\ unhandled' = IF res.ok THEN unhandled ELSE Append(unhandled, res.err.v)
    /\ immediates' = Tail(immediates)
    /\ UNCHANGED <<uvars, reported, impl, dvars, gvars, sPc, sParams, sRest, source, delivered,
                   sError, fullText, reasoningText, contentJson, warnings, error, finalized>>

\* setImmediate(async () => { try { await save(row) } catch (err) { ... } }):
\* a rejection of save is caught and handed to the side channel
RunImmediate ==
    /\ immediates # <<>>
    /\ LET task == Head(immediates)
       IN  \E res \in SaveResults(task.row, StreamCall(task.stream)) :
               /\ db' = res.db
               /\ saveCalls' = [saveCalls EXCEPT
                      ![task.stream] = Append(@, [row |-> task.row, ok |-> res.ok])]
               /\ sinkRefused' = IF res.ok THEN sinkRefused \ {StreamCall(task.stream)}
                                 ELSE sinkRefused \cup {StreamCall(task.stream)}
               /\ reported' = IF res.ok THEN reported
                              ELSE Append(reported, [stream |-> task.stream,
                                                     channel |-> SideChannel,
                                                     message |-> res.err.v.message])
    /\ immediates' = Tail(immediates)
    /\ UNCHANGED <<uvars, unhandled, impl, dvars, gvars, sPc, sParams, sRest, source, delivered,
                   sError, fullText, reasoningText, contentJson, warnings, error, finalized>>

vars == <<impl, db, sinkRefused, gvars, svars, evars, uvars, dvars>>

\* an http.Server: whether it holds a listening handle, its open
\* connections, the 'close' events scheduled but not yet emitted, and the
\* callbacks close(callback) registered for the next 'close' event
NoServer == [created |-> FALSE, listening |-> FALSE, connections |-> 0, pendingEmits |-> 0, once |-> <<>>]

\* startDashboardServer has not been called
DashboardNotStarted ==
    /\ dPc = "idle"
    /\ dOptions = Null
    /\ dError = Null
    /\ dashboardDb = "none"
    /\ dbCloses = 0
    /\ server = NoServer
    /\ closed = FALSE
    /\ closeCalls = <<>>
    /\ ownerCloses = 0

\* no call has been made
InitCalls ==
    /\ db = {}
    /\ sinkRefused = {}
    /\ gPc = "idle"
    /\ gCall = 0
    /\ gParams = Null
    /\ gSettled = Null
    /\ gErr = Null
    /\ gSave = Null
    /\ gOutcome = Null
    /\ gLog = <<>>
    /\ sPc = [s \in Streams |-> "idle"]
    /\ sParams = [s \in Streams |-> Null]
    /\ sRest = [s \in Streams |-> Null]
    /\ source = [s \in Streams |-> <<>>]
    /\ delivered = [s \in Streams |-> <<>>]
    /\ sError = [s \in Streams |-> Null]
    /\ fullText = [s \in Streams |-> ""]
    /\ reasoningText = [s \in Streams |-> Null]
    /\ contentJson = [s \in Streams |-> ""]
    /\ warnings = [s \in Streams |-> Null]
    /\ error = [s \in Streams |-> Null]
    /\ finalized = [s \in Streams |-> <<>>]
    /\ immediates = <<>>
    /\ saveCalls = [s \in Streams |-> <<>>]
    /\ reported = <<>>
    /\ unhandled = <<>>
    /\ DashboardNotStarted

Init ==
    /\ impl \in Impls
    /\ InitCalls
    /\ uPc = "idle"
    /\ uU = Null
    /\ uBodyUsage = Null
    /\ uOut = Null
    /\ hPc = "idle"
    /\ hIn = Null
    /\ hOut = Null

NextGenerate ==
    \/ \E p \in ParamsSet : WrapGenerate(p)
    \/ \E result \in Results : DoGenerateResolves(result)
    \/ \E e \in UnderlyingErrors : DoGenerateRejects(e)
    \/ ReturnResult
    \/ SaveRejectsInTry
    \/ ThrowErr
    \/ SaveRejectsInCatch

SpecGenerate == Init /\ [][NextGenerate]_vars

\* one streaming call, any chunk sequence
SoloStream == {1}

NextStream ==
    \/ \E s \in SoloStream, p \in StreamParams : WrapStream(s, p)
    \/ \E s \in SoloStream, rest \in Rests : DoStreamResolves(s, rest)
    \/ \E s \in SoloStream, e \in UnderlyingErrors : DoStreamRejects(s, e)
    \/ \E s \in SoloStream, chunk \in Chunks : TransformMain(s, chunk)
    \/ \E s \in SoloStream, chunk \in Chunks : TransformAlt(s, chunk)
    \/ \E s \in SoloStream : SourceCloses(s)
    \/ \E s \in SoloStream, e \in UnderlyingErrors : SourceErrors(s, e)
    \/ \E s \in SoloStream : ConsumerCancels(s)
    \/ RunImmediate

SpecStream == Init /\ [][NextStream]_vars

\* Two streaming calls of one middleware, consumed with their chunks
\* interleaved in any order.
PairChunks ==
    { TextDelta("Hel"), ReasoningDelta("be"), ErrorChunk, StreamStart,
      Finish(Val(Usage)) }

PairRest ==
    [ request |-> Val([body |-> Val([isString |-> FALSE,
                                    model |-> Val("deepseek-reasoner"),
                                    messages |-> Val(<<UserMessage>>),
                                    input |-> Null, tools |-> Null]),
                       id |-> Null]),
      response |-> Null, warnings |-> Null ]

NextPair ==
    \/ \E s \in Streams, p \in StreamParams : WrapStream(s, p)
    \/ \E s \in Streams : DoStreamResolves(s, PairRest)
    \/ \E s \in Streams, chunk \in PairChunks :
          Len(source[s]) < MaxPairChunks /\ TransformMain(s, chunk)
    \/ \E s \in Streams, chunk \in PairChunks :
          Len(source[s]) < MaxPairChunks /\ TransformAlt(s, chunk)
    \/ RunImmediate

SpecPair == Init /\ [][NextPair]_vars

\* Two streaming calls whose consumers may stop reading at any point, with
\* the event loop running every callback it was given: each iteration of
\* the loop runs the setImmediate callbacks that are queued.
FairChunks == {TextDelta("Hel"), Finish(Val(Usage))}

NextFair ==
    \/ \E s \in Streams, p \in StreamParams : WrapStream(s, p)
    \/ \E s \in Streams : DoStreamResolves(s, PairRest)
    \/ \E s \in Streams, chunk \in FairChunks :
          Len(source[s]) < MaxFairChunks /\ TransformMain(s, chunk)
    \/ \E s \in Streams, chunk \in FairChunks :
          Len(source[s]) < MaxFairChunks /\ TransformAlt(s, chunk)
    \/ \E s \in Streams : ConsumerCancels(s)
    \/ RunImmediate

SpecFair == Init /\ [][NextFair]_vars /\ WF_vars(RunImmediate)

\* One streaming call whose stream announces warnings, once or several
\* times, and whose doStream result may carry warnings of its own.
WarningChunks ==
    { StreamStart, StreamStartWith(Val(<<"other-warning">>)), StreamStartWith(Null),
      TextDelta("Hel"), Finish(Val(Usage)) }

WarningRests == {PairRest, [PairRest EXCEPT !.warnings = Val(<<"call-warning">>)]}

NextWarnings ==
    \/ \E s \in SoloStream, p \in StreamParams : WrapStream(s, p)
    \/ \E s \in SoloStream, rest \in WarningRests : DoStreamResolves(s, rest)
    \/ \E s \in SoloStream, chunk \in WarningChunks : TransformMain(s, chunk)
    \/ \E s \in SoloStream, chunk \in WarningChunks : TransformAlt(s, chunk)
    \/ RunImmediate

SpecWarnings == Init /\ [][NextWarnings]_vars

\* One streaming call whose model calls a tool: the tool input arrives in
\* fragments, between a start and an end marker, next to text.
ToolChunks ==
    { ToolInputStart, ToolInputDelta("{"), ToolInputDelta("}"), ToolInputEnd,
      TextDelta("Hel"), Finish(Val(Usage)) }

NextToolTrace ==
    \/ \E s \in SoloStream, p \in StreamParams : WrapStream(s, p)
    \/ \E s \in SoloStream : DoStreamResolves(s, PairRest)
    \/ \E s \in SoloStream, chunk \in ToolChunks : TransformMain(s, chunk)
    \/ \E s \in SoloStream, chunk \in ToolChunks : TransformAlt(s, chunk)
    \/ RunImmediate

SpecToolTrace == Init /\ [][NextToolTrace]_vars

(***************************************************************************)
(* normUsage on its own: the arguments are drawn in the initial state and  *)
(* one step applies the function.                                          *)
(***************************************************************************)
\* the normalized usage object of the SDK (or none)
UsageObjects ==
    {Null} \cup
    { Val([EmptyUsage EXCEPT !.inputTokens = it, !.promptTokens = pt,
                             !.outputTokens = ot, !.completionTokens = ct,
                             !.totalTokens = tt, !.cachedInputTokens = cit,
                             !.reasoningTokens = rt])
      : it \in {Null, Val(0), Val(10)}, pt \in {Null, Val(7)},
        ot \in {Null, Val(4)}, ct \in {Null, Val(6)}, tt \in {Null, Val(20)},
        cit \in {Null, Val(2)}, rt \in {Null, Val(7)} }

\* the usage object of the provider's raw response body (or none)
BodyUsages ==
    {Null} \cup
    { Val([EmptyUsage EXCEPT !.input_tokens = it, !.output_tokens = ot,
                             !.total_tokens = tt,
                             !.input_tokens_details = itd,
                             !.output_tokens_details = otd])
      : it \in {Null, Val(99)}, ot \in {Null, Val(5)}, tt \in {Null, Val(50)},
        itd \in {Null, Val([cached_tokens |-> Val(8)])},
        otd \in {Null, Val([reasoning_tokens |-> Val(3)])} }

InitUsage ==
    /\ impl = "main"
    /\ InitCalls
    /\ uPc = "call"
    /\ uU \in UsageObjects
    /\ uBodyUsage \in BodyUsages
    /\ uOut = Null
    /\ hPc = "idle"
    /\ hIn = Null
    /\ hOut = Null

\* const usage = normUsage(u, bodyUsage)
NormUsage ==
    /\ uPc = "call"
    /\ uOut' = Val(normUsage(uU, uBodyUsage))
    /\ uPc' = "done"
    /\ UNCHANGED <<uU, uBodyUsage, hvars, evars, impl, dvars, db, sinkRefused, gvars, svars>>

NextUsage == NormUsage

SpecUsage == InitUsage /\ [][NextUsage]_vars

(***************************************************************************)
(* extractTags on its own                                                  *)
(***************************************************************************)
\* a tags value: a list of strings or a single string
TagList(items) == [isArray |-> TRUE, items |-> items, str |-> ""]
TagString(str) == [isArray |-> FALSE, items |-> <<>>, str |-> str]

TagValues ==
    { Null, Val(TagList(<<>>)), Val(TagList(<<"qbr">>)),
      Val(TagList(<<"qbr", "analysis">>)), Val(TagString("qbr")), Val(TagString("")) }

\* providerOptions / providerMetadata: absent, without the usageLogger
\* namespace, or with a usageLogger object
OptionBags ==
    {Null, Val([usageLogger |-> Null])}
    \cup {Val([usageLogger |-> Val([tags |-> t])]) : t \in TagValues}

TagParams ==
    { [MkParams(Null, Null, Null) EXCEPT !.providerOptions = po, !.providerMetadata = pm]
      : po \in OptionBags, pm \in OptionBags }

\* the helpers called on their own: nothing else of the program runs
HelperCalled(args) ==
    /\ impl = "main"
    /\ InitCalls
    /\ uPc = "idle" /\ uU = Null /\ uBodyUsage = Null /\ uOut = Null
    /\ hPc = "call"
    /\ hIn = args
    /\ hOut = Null

HelperReturns(value) ==
    /\ hPc = "call"
    /\ hOut' = Val(value)
    /\ hPc' = "done"
    /\ UNCHANGED <<hIn, uPc, uU, uBodyUsage, uOut, evars, impl, dvars, db, sinkRefused, gvars, svars>>

InitTags == \E params \in TagParams : HelperCalled(params)

\* const tags = extractTags(params)
ExtractTags == HelperReturns(extractTags(hIn))

NextTags == ExtractTags

SpecTags == InitTags /\ [][NextTags]_vars

(***************************************************************************)
(* collapseInputText on its own                                            *)
(***************************************************************************)
SystemMessage == [role |-> "system", content |-> "You are precise."]

PromptLists == {Val(<<UserMessage>>), Val(<<SystemMessage, UserMessage>>), Val(<<Null>>)}
MessageLists == {Null, Val(<<UserMessage>>), Val(<<UserMessage, Null>>)}
SystemInstructions == {Null, Val("You are precise.")}

InputTextParams ==
    { [MkParams(Null, Null, Null) EXCEPT !.prompt = pr, !.messages = ms, !.system = sy]
      : pr \in PromptLists \cup {Null}, ms \in MessageLists, sy \in SystemInstructions }
    \cup
    { [MkParams(Null, Null, Null) EXCEPT !.prompt = Null, !.promptText = Val("Explain"),
                                          !.messages = ms, !.system = sy]
      : ms \in MessageLists, sy \in SystemInstructions }

\* the echoed request body: absent, JSON text, without input, with an input
\* list
InputBodies ==
    { Null,
      Val([isString |-> TRUE, model |-> Null, messages |-> Null, input |-> Null,
           tools |-> Null]),
      Val([isString |-> FALSE, model |-> Null, messages |-> Null, input |-> Null,
           tools |-> Null]),
      Val([isString |-> FALSE, model |-> Null, messages |-> Null,
           input |-> Val(<<UserMessage>>), tools |-> Null]) }

InitInputText ==
    \E params \in InputTextParams, body \in InputBodies :
        HelperCalled([params |-> params, requestBody |-> body])

\* inputText: collapseInputText(params, result?.request?.body)
CollapseInputText ==
    HelperReturns(
        IF collapseInputTextThrows(hIn.params, hIn.requestBody)
        THEN [threw |-> TRUE, value |-> Null]
        ELSE [threw |-> FALSE, value |-> collapseInputText(hIn.params, hIn.requestBody)])

NextInputText == CollapseInputText

SpecInputText == InitInputText /\ [][NextInputText]_vars

(***************************************************************************)
(* Every extraction helper on its own, given params, a result and a        *)
(* response body that may lack what the helper looks for                   *)
(***************************************************************************)
HelperParams ==
    { MkParams(Null, Null, Null),
      MkParams(Val(TagList(<<"qbr", "analysis">>)), Val(ToolList), Val(1)),
      [MkParams(Null, Null, Null) EXCEPT !.prompt = Null],
      [MkParams(Null, Null, Null) EXCEPT !.prompt = Val(<<UserMessage, Null>>)] }

HelperResults ==
    { [ request |-> rq, response |-> Null, text |-> tx, content |-> ct,
        usage |-> us, finishReason |-> Null, warnings |-> Null ]
      : rq \in {Null, Val([body |-> Null, id |-> Null])},
        tx \in {Null, Val("Hello")}, ct \in Contents \cup {Null},
        us \in {Null, Val(Usage)} }

HelperBodies == {Null} \cup {Val(b) : b \in ResponseBodies}

InitHelpers ==
    \E params \in HelperParams, result \in HelperResults, body \in HelperBodies :
        HelperCalled([params |-> params, result |-> result, body |-> body])

Returned(helper, value) == [helper |-> helper, threw |-> FALSE, value |-> value]
Threw(helper) == [helper |-> helper, threw |-> TRUE, value |-> Null]

CallExtractTags ==
    HelperReturns(Returned("extractTags", extractTags(hIn.params)))

CallNormUsage ==
    HelperReturns(Returned("normUsage",
                           normUsage(hIn.result.usage, Get(hIn.body, "usage"))))

CallCollapseInputText ==
    HelperReturns(
        IF collapseInputTextThrows(hIn.params, Get(hIn.result.request, "body"))
        THEN Threw("collapseInputText")
        ELSE Returned("collapseInputText",
                      collapseInputText(hIn.params, Get(hIn.result.request, "body"))))

CallExtractTextFromResult ==
    HelperReturns(Returned("extractTextFromResult", extractTextFromResult(hIn.result)))

CallExtractTextFromResponseBody ==
    HelperReturns(
        IF extractTextFromResponseBody(hIn.body).threw
        THEN Threw("extractTextFromResponseBody")
        ELSE Returned("extractTextFromResponseBody",
                      extractTextFromResponseBody(hIn.body).text))

CallExtractToolMeta ==
    HelperReturns(Returned("extractToolMeta",
        extractToolMeta(hIn.params, Get(hIn.result.request, "body")).requestToolsJson))

CallPickNumericParams ==
    HelperReturns(Returned("pickNumericParams",
                           pickNumericParams(hIn.params, hIn.body)))

NextHelpers ==
    \/ CallExtractTags
    \/ CallNormUsage
    \/ CallCollapseInputText
    \/ CallExtractTextFromResult
    \/ CallExtractTextFromResponseBody
    \/ CallExtractToolMeta
    \/ CallPickNumericParams

SpecHelpers == InitHelpers /\ [][NextHelpers]_vars

(***************************************************************************)
(* save on its own, given a row with a field of any type                   *)
(***************************************************************************)
FieldValues ==
    { JsNull, JsUndefined, JsString(""), JsString("Hello"), JsNumber("0"),
      JsNumber("10"), JsBigInt("10"), JsBuffer("Hello"), JsBoolean(TRUE),
      JsBoolean(FALSE), JsObject("{\"a\":1}"), JsStringList(<<"qbr">>), JsCyclic }

InitSink ==
    \E sink \in Sinks, field \in RowFields, value \in FieldValues :
        HelperCalled([sink |-> sink, field |-> field, value |-> value])

SinkCall == [path |-> "save", n |-> 1]

\* await save(row): the row is inserted unless deriving or binding raised
SaveFieldThen(nextPc) ==
    /\ hPc = "call"
    /\ LET out == SaveOutcome(hIn.sink, hIn.field, hIn.value)
       IN  /\ hOut' = Val(out)
           /\ db' = IF out.threw THEN db
                    ELSE db \cup {[id |-> 1, call |-> SinkCall,
                                   cols |-> [field |-> hIn.field, value |-> out.bound]]}
           /\ hPc' = IF out.threw THEN "done" ELSE nextPc
    /\ UNCHANGED <<hIn, uPc, uU, uBodyUsage, uOut, evars, impl, dvars, sinkRefused, gvars, svars>>

SaveField == SaveFieldThen("done")

NextSink == SaveField

SpecSink == InitSink /\ [][NextSink]_vars

(***************************************************************************)
(* The dashboard reading back a serialized-text column (part_001)          *)
(***************************************************************************)
\* The values JSON text denotes: null, booleans, numbers, strings, lists
\* and plain objects.
ParsedValues ==
    { JsNull, JsBoolean(TRUE), JsBoolean(FALSE), JsNumber("0"), JsNumber("10"),
      JsString(""), JsString("Hello"), JsString("qbr"),
      JsObject("{\"a\":1}"), JsObject("{\"type\":\"Buffer\"}"),
      JsStringList(<<>>), JsStringList(<<"qbr">>), JsStringList(<<"qbr", "analysis">>) }

\* JSON.parse(text) raises a SyntaxError unless text is JSON text
IsJsonText(text) == \E v \in ParsedValues : v.json = Val(text)

\* JSON.parse(text): the value the text denotes
JsonParse(text) == CHOOSE v \in ParsedValues : v.json = Val(text)

\* Mutant: a column that does not parse is read as null.
safeParseJsonOrNull(value) ==
    IF value.kind = "null" THEN JsNull
    ELSE IF IsJsonText(value.text) THEN JsonParse(value.text)
    ELSE JsNull

\* if (value == null) return null;
\* try { return JSON.parse(value) } catch { return value }
safeParseJson(value) ==
    IF value.kind = "null" THEN JsNull
    ELSE IF IsJsonText(value.text) THEN JsonParse(value.text)
    ELSE value

SerializedFields == {"tags", "contentJson", "error"}

ColumnValues ==
    FieldValues \cup {JsString("qbr"), JsStringList(<<>>), JsStringList(<<"qbr", "analysis">>)}

InitReadBack ==
    \E sink \in Sinks, field \in SerializedFields, value \in ColumnValues :
        HelperCalled([sink |-> sink, field |-> field, value |-> value])

\* save(row) writes the column
WriteColumn == SaveFieldThen("stored")

\* the dashboard selects the row and parses the column
ReadColumn ==
    /\ hPc = "stored"
    /\ \E r \in db :
          hOut' = Val([stored |-> r.cols.value, parsed |-> safeParseJson(r.cols.value)])
    /\ hPc' = "done"
    /\ UNCHANGED <<hIn, uPc, uU, uBodyUsage, uOut, evars, impl, dvars, db, sinkRefused, gvars, svars>>

NextReadBack == WriteColumn \/ ReadColumn

SpecReadBack == InitReadBack /\ [][NextReadBack]_vars

(***************************************************************************)
(* The parallel-tool-calls flag, from the response body to the column      *)
(***************************************************************************)
\* body?.parallel_tool_calls: undefined when the body or the property is
\* missing, else whatever JSON value the provider sent
BodyFlags ==
    { JsUndefined, JsNull, JsBoolean(TRUE), JsBoolean(FALSE), JsString("true"),
      JsString(""), JsNumber("0"), JsNumber("1") }

\* extractToolMeta(params, result, body).parallelToolCalls
parallelToolCallsOf(bodyFlag) ==
    IF bodyFlag.kind = "boolean" THEN bodyFlag ELSE JsNull

\* the row literals of the middleware
RowMakers == {"wrapGenerate", "wrapGenerate catch", "wrapStream", "part_006"}

\* row.parallelToolCalls as each row literal sets it: the extracted flag,
\* null in the catch clause, and no such property in the rows of part_006
RowFlag(maker, bodyFlag) ==
    IF maker \in {"wrapGenerate", "wrapStream"} THEN parallelToolCallsOf(bodyFlag)
    ELSE IF maker = "wrapGenerate catch" THEN JsNull
    ELSE JsUndefined

\* the catch clause runs when the provider gave no response
FlagCalls ==
    { [sink |-> sink, maker |-> maker, bodyFlag |-> flag]
      : sink \in Sinks, maker \in RowMakers, flag \in BodyFlags }

InitFlag ==
    \E call \in FlagCalls :
        /\ call.maker = "wrapGenerate catch" => call.bodyFlag = JsUndefined
        /\ HelperCalled(call)

\* const row: LLMCallRow = { ..., parallelToolCalls: tools.parallelToolCalls, ... }
BuildRowFlag ==
    /\ hPc = "call"
    /\ hOut' = Val([flag |-> RowFlag(hIn.maker, hIn.bodyFlag), saved |-> Null])
    /\ hPc' = "built"
    /\ UNCHANGED <<hIn, db, uPc, uU, uBodyUsage, uOut, evars, impl, dvars, sinkRefused, gvars, svars>>

\* await save(row), as far as the flag goes
SaveRowFlag ==
    /\ hPc = "built"
    /\ LET out == SaveOutcome(hIn.sink, "parallelToolCalls", hOut.v.flag)
       IN  /\ hOut' = Val([hOut.v EXCEPT !.saved = Val(out)])
           /\ db' = IF out.threw THEN db
                    ELSE db \cup {[id |-> 1, call |-> SinkCall,
                                   cols |-> [field |-> "parallelToolCalls", value |-> out.bound]]}
    /\ hPc' = "done"
    /\ UNCHANGED <<hIn, uPc, uU, uBodyUsage, uOut, evars, impl, dvars, sinkRefused, gvars, svars>>

NextFlag ==
    \/ BuildRowFlag
    \/ SaveRowFlag

SpecFlag == InitFlag /\ [][NextFlag]_vars

(***************************************************************************)
(* The dashboard server: startDashboardServer and the handle it returns    *)
(***************************************************************************)
\* what options.dbPath points at, and whether the port can be bound
DbPaths == {"missing", "no such file", "other database", "usage database"}
DashboardOptions ==
    { [dbPath |-> path, viewsFound |-> found, port |-> port]
      : path \in DbPaths, found \in BOOLEAN, port \in {"free", "in use"} }

PathMissing == "A path to the SQLite database must be provided."
NoDatabaseFound == "No SQLite database found"
NoViews == "Unable to locate the views directory for the dashboard."
NoSuchTable == "no such table: llm_calls"
AddressInUse == "EADDRINUSE"

\* startDashboardServer up to `await listenAsync(app, host, port)`: the
\* path checks, new Database, resolveViewsDirectory and db.prepare, each of
\* which may throw
StartDashboardServer(options) ==
    /\ dPc = "idle"
    /\ dOptions' = Val(options)
    /\ IF options.dbPath = "missing"
       THEN dPc' = "rejected" /\ dError' = Val(PathMissing) /\ UNCHANGED dashboardDb
       ELSE IF options.dbPath = "no such file"
       THEN dPc' = "rejected" /\ dError' = Val(NoDatabaseFound) /\ UNCHANGED dashboardDb
       ELSE /\ dashboardDb' = "open"
            /\ IF ~options.viewsFound
               THEN dPc' = "rejected" /\ dError' = Val(NoViews)
               ELSE IF options.dbPath = "other database"
               THEN dPc' = "rejected" /\ dError' = Val(NoSuchTable)
               ELSE dPc' = "listen" /\ UNCHANGED dError
    /\ UNCHANGED <<dbCloses, server, closed, closeCalls, ownerCloses>>
    /\ UNCHANGED <<impl, db, sinkRefused, gvars, svars, evars, uvars>>

\* listenAsync resolves: the 'close' handler is registered and the handle
\* is returned
ListenSucceeds ==
    /\ dPc = "listen"
    /\ dOptions.v.port = "free"
    /\ server' = [NoServer EXCEPT !.created = TRUE, !.listening = TRUE]
    /\ dPc' = "resolved"
    /\ UNCHANGED <<dOptions, dError, dashboardDb, dbCloses, closed, closeCalls, ownerCloses>>
    /\ UNCHANGED <<impl, db, sinkRefused, gvars, svars, evars, uvars>>

\* listenAsync rejects: catch (err) { db.close(); throw err; }
ListenFails ==
    /\ dPc = "listen"
    /\ dOptions.v.port = "in use"
    /\ server' = [NoServer EXCEPT !.created = TRUE]
    /\ dashboardDb' = "closed"
    /\ dbCloses' = dbCloses + 1
    /\ dError' = Val(AddressInUse)
    /\ dPc' = "rejected"
    /\ UNCHANGED <<dOptions, closed, closeCalls, ownerCloses>>
    /\ UNCHANGED <<impl, db, sinkRefused, gvars, svars, evars, uvars>>

\* server.close(callback): the handle stops listening at once; the callback
\* waits for the next 'close' event and is given an error when the server
\* was not listening; the event is scheduled when no connection is open
ServerClose(srv, callback) ==
    [srv EXCEPT !.listening = FALSE,
                !.once = IF callback.nil THEN @
                         ELSE Append(@, [call |-> callback.v, notRunning |-> ~srv.listening]),
                !.pendingEmits = IF srv.connections = 0 THEN @ + 1 ELSE @]

\* const close = async () => { ... }, up to the pending promise
HandleClose ==
    /\ dPc = "resolved"
    /\ Len(closeCalls) < MaxCloseCalls
    /\ IF closed
       THEN /\ closeCalls' = Append(closeCalls, "resolved")
            /\ UNCHANGED <<closed, server>>
       ELSE /\ closed' = TRUE
            /\ server' = ServerClose(server, Val(Len(closeCalls) + 1))
            /\ closeCalls' = Append(closeCalls, "pending")
    /\ UNCHANGED <<dPc, dOptions, dError, dashboardDb, dbCloses, ownerCloses>>
    /\ UNCHANGED <<impl, db, sinkRefused, gvars, svars, evars, uvars>>

\* the owner of handle.server closes it directly
OwnerClosesServer ==
    /\ dPc = "resolved"
    /\ ownerCloses < MaxOwnerCloses
    /\ server' = ServerClose(server, Null)
    /\ ownerCloses' = ownerCloses + 1
    /\ UNCHANGED <<dPc, dOptions, dError, dashboardDb, dbCloses, closed, closeCalls>>
    /\ UNCHANGED <<impl, db, sinkRefused, gvars, svars, evars, uvars>>

\* a browser opens a keep-alive connection
ClientConnects ==
    /\ server.listening
    /\ server.connections = 0
    /\ server' = [server EXCEPT !.connections = 1]
    /\ UNCHANGED <<dPc, dOptions, dError, dashboardDb, dbCloses, closed, closeCalls, ownerCloses>>
    /\ UNCHANGED <<impl, db, sinkRefused, gvars, svars, evars, uvars>>

\* the connection ends; a server that no longer listens then schedules
\* its 'close' event
ConnectionEnds ==
    /\ server.connections = 1
    /\ server' = [server EXCEPT !.connections = 0,
                                !.pendingEmits = IF server.listening THEN @ ELSE @ + 1]
    /\ UNCHANGED <<dPc, dOptions, dError, dashboardDb, dbCloses, closed, closeCalls, ownerCloses>>
    /\ UNCHANGED <<impl, db, sinkRefused, gvars, svars, evars, uvars>>

\* what the listeners of one 'close' event read and write
ClosureState == [closed |-> closed, dashboardDb |-> dashboardDb, dbCloses |-> dbCloses, closeCalls |-> closeCalls]

\* a 'close' listener that closes the database whatever `closed` says
OnServerCloseUnguarded(st) ==
    [st EXCEPT !.closed = TRUE, !.dashboardDb = "closed", !.dbCloses = @ + 1]

\* server.on('close', () => { if (!closed) { closed = true; db.close() } })
OnServerClose(st) ==
    IF ~st.closed
    THEN [st EXCEPT !.closed = TRUE, !.dashboardDb = "closed", !.dbCloses = @ + 1]
    ELSE st

\* the callback close() gave to server.close
CloseCallback(st, listener) ==
    IF listener.notRunning
    THEN [st EXCEPT !.closed = FALSE, !.closeCalls[listener.call] = "rejected"]
    ELSE [st EXCEPT !.dashboardDb = "closed", !.dbCloses = @ + 1,
                    !.closeCalls[listener.call] = "resolved"]

RECURSIVE RunCallbacks(_, _)
RunCallbacks(st, listeners) ==
    IF listeners = <<>> THEN st
    ELSE RunCallbacks(CloseCallback(st, Head(listeners)), Tail(listeners))

\* the server emits 'close': the listeners run in the order they were
\* registered, the handler of startDashboardServer first
EmitClose ==
    /\ server.pendingEmits > 0
    /\ LET st == RunCallbacks(OnServerClose(ClosureState), server.once)
       IN  /\ closed' = st.closed
           /\ dashboardDb' = st.dashboardDb
           /\ dbCloses' = st.dbCloses
           /\ closeCalls' = st.closeCalls
    /\ server' = [server EXCEPT !.pendingEmits = @ - 1, !.once = <<>>]
    /\ UNCHANGED <<dPc, dOptions, dError, ownerCloses>>
    /\ UNCHANGED <<impl, db, sinkRefused, gvars, svars, evars, uvars>>

NextDashboard ==
    \/ \E options \in DashboardOptions : StartDashboardServer(options)
    \/ ListenSucceeds
    \/ ListenFails
    \/ HandleClose
    \/ OwnerClosesServer
    \/ ClientConnects
    \/ ConnectionEnds
    \/ EmitClose

InitDashboard == Init /\ impl = "main"

SpecDashboard == InitDashboard /\ [][NextDashboard]_vars

(***************************************************************************)
(* The output text of a one-shot row, for any result                       *)
(***************************************************************************)
\* result.text, result.content and result.response.body in the shapes
\* that decide which source supplies the output text
OutputContents ==
    Contents \cup {Null, Val(<<>>), Val(<<[type |-> "reasoning", text |-> "because"]>>)}

OutputResults ==
    { [ request |-> Val([body |-> Val(b), id |-> Null]), response |-> rs, text |-> tx,
        content |-> ct, usage |-> Val(Usage), finishReason |-> Val("stop"),
        warnings |-> Null ]
      : b \in {rb \in RequestBodies : ~rb.isString}, rs \in Responses,
        tx \in {Null, Val(""), Val("Hi")}, ct \in OutputContents }

InitOutputText ==
    /\ impl \in Impls
    /\ InitCalls
    /\ uPc = "idle" /\ uU = Null /\ uBodyUsage = Null /\ uOut = Null
    /\ hPc = "call"
    /\ hIn \in {[params |-> MkParams(Null, Null, Null), result |-> result] : result \in OutputResults}
    /\ hOut = Null

\* wrapGenerate from `const result = await doGenerate()` to the row it hands
\* to save: the row of the try block, or the row of the catch clause when
\* building the first one raised
BuildRow ==
    /\ hPc = "call"
    /\ LET built == SuccessRow(hIn.params, hIn.result, extractTags(hIn.params))
       IN  hOut' = Val(IF built.threw THEN ErrorRow(hIn.params, TypeError) ELSE built.row)
    /\ hPc' = "done"
    /\ UNCHANGED <<hIn, uPc, uU, uBodyUsage, uOut, evars, impl, dvars, db, sinkRefused, gvars, svars>>

NextOutputText == BuildRow

SpecOutputText == InitOutputText /\ [][NextOutputText]_vars

(***************************************************************************)
(* Properties of the one-shot path                                         *)
(***************************************************************************)
RowsOf(call) == {r \in db : r.call = call}
GenerateSettled == gPc = "done"
CurrentCall == GenerateCall(gCall)
IsErrorRow(r) == r.cols.finish_reason = Val("error")
AllSavesAccepted == \A i \in 1..Len(gLog) : gLog[i].ok

\* C1: when a sequence of one-shot calls is over, every call of it has exactly
\* one row in the table (none only if the sink refused the write, never two),
\* and no two rows of the table share an id.
C1_OneRowPerCall ==
    GenerateSettled =>
        /\ \A n \in 1..gCall :
              Cardinality(RowsOf(GenerateCall(n))) =
                  IF GenerateCall(n) \in sinkRefused THEN 0 ELSE 1
        /\ Cardinality(db) = gCall - Cardinality(sinkRefused)
        /\ \A r1, r2 \in db : r1.id = r2.id => r1 = r2

C1_Witness ==
    /\ GenerateSettled
    /\ gCall = 2
    /\ sinkRefused = {}
    /\ \E r1, r2 \in db : r1.id # r2.id /\ IsErrorRow(r1) /\ ~IsErrorRow(r2)

\* C2: when doGenerate rejected with E and the sink accepted the error row,
\* the caller observes the rejection E itself, and by then the table holds a
\* row of this call with finish_reason "error" whose error_json encodes
\* E's message.
C2_ErrorRethrownAfterErrorRow ==
    \A e \in UnderlyingErrors :
        (/\ GenerateSettled
         /\ gSettled = Rejected(e)
         /\ CurrentCall \notin sinkRefused)
        => /\ gOutcome = Rejected(e)
           /\ \E r \in RowsOf(CurrentCall) :
                 /\ IsErrorRow(r)
                 /\ r.cols.error_json = Val(JsonError(ErrorPayload(e)))

C2_Witness ==
    /\ GenerateSettled
    /\ gSettled = Rejected(MkError("provider", "boom"))
    /\ gOutcome = Rejected(MkError("provider", "boom"))
    /\ \E r \in RowsOf(CurrentCall) : IsErrorRow(r)

\* C3 (as claimed): whenever doGenerate resolved, whatever the shape of the
\* result, and the sink accepted what it was given, the caller receives that
\* result and the call's one row is a success row.
C3_SuccessRowForEveryResultShape ==
    (/\ GenerateSettled
     /\ ~gSettled.nil /\ gSettled.v.resolved
     /\ AllSavesAccepted)
    => /\ gOutcome = Resolved(gSettled.v.value)
       /\ \E r \in RowsOf(CurrentCall) : r.cols.error_json = Null
       /\ Cardinality(RowsOf(CurrentCall)) = 1

\* C9 (as claimed): when doGenerate resolved and the save of the success row
\* failed, the caller still receives the result, and no error row is written.
C9_SaveFailureOnSuccessIsSwallowed ==
    (/\ GenerateSettled
     /\ ~gSettled.nil /\ gSettled.v.resolved
     /\ Len(gLog) >= 1 /\ gLog[1].row.error.nil /\ ~gLog[1].ok)
    => /\ gOutcome = Resolved(gSettled.v.value)
       /\ \A r \in RowsOf(CurrentCall) : ~IsErrorRow(r)

\* C10 (as claimed): when doGenerate rejected with E and the save of the
\* error row failed as well, the caller observes E.
C10_OriginalErrorSurvivesSaveFailure ==
    \A e \in UnderlyingErrors :
        (/\ GenerateSettled
         /\ gSettled = Rejected(e)
         /\ Len(gLog) >= 1 /\ ~gLog[Len(gLog)].ok)
        => gOutcome = Rejected(e)

(***************************************************************************)
(* Properties of the streaming path                                        *)
(***************************************************************************)
RECURSIVE DeltasOf(_, _)
\* the deltas of the chunks of the given type, joined in arrival order
DeltasOf(chunks, type) ==
    IF chunks = <<>> THEN ""
    ELSE (IF Head(chunks).type = type THEN Head(chunks).delta ELSE "")
         \o DeltasOf(Tail(chunks), type)

RECURSIVE TraceDeltasOf(_)
\* the deltas of the text, reasoning and tool-input chunks, joined in arrival
\* order
TraceDeltasOf(chunks) ==
    IF chunks = <<>> THEN ""
    ELSE (IF Head(chunks).type \in {"text-delta", "reasoning-delta", "tool-input-delta"}
          THEN Head(chunks).delta ELSE "")
         \o TraceDeltasOf(Tail(chunks))

HasType(chunks, type) == \E i \in 1..Len(chunks) : chunks[i].type = type
Before(s, f) == SubSeq(source[s], 1, f.at - 1)
Finalized(s) == {finalized[s][i] : i \in 1..Len(finalized[s])}
SaveCallCount(s) ==
    Len(saveCalls[s]) + Cardinality({i \in 1..Len(immediates) : immediates[i].stream = s})
ProviderFailed(s) == ~sError[s].nil /\ sError[s].v.origin = "provider"

\* C4 (as claimed): the consumer of the returned stream is given exactly the
\* chunks the underlying stream emitted, in order, and the returned stream
\* errors only if the underlying one did.
C4_StreamPassesThrough ==
    \A s \in Streams :
        /\ delivered[s] = source[s]
        /\ ~sError[s].nil => ProviderFailed(s)

\* C5 (as claimed): a stream hands at most one row to the sink, also when
\* chunks, a second finish chunk among them, follow the first finish chunk.
C5_FinalizedAtMostOnce ==
    \A s \in Streams : Len(finalized[s]) <= 1 /\ SaveCallCount(s) <= 1

FailedSaves(s) == {i \in 1..Len(saveCalls[s]) : ~saveCalls[s][i].ok}
ReportsOf(s) == {i \in 1..Len(reported) : reported[i].stream = s}
TransformThrew(s) == ~sError[s].nil /\ sError[s].v.origin = "runtime"
Last(seq) == seq[Len(seq)]

\* C11: a save of a finalized stream row that fails is caught in the
\* scheduled callback: each failure is reported once on the side channel
\* (console.error or process.emitWarning), no rejection is left unhandled,
\* the returned stream never carries a sink error, and every chunk whose
\* transform completed stays delivered, unchanged and in order.
C11_StreamSaveFailureIsSwallowed ==
    /\ unhandled = <<>>
    /\ \A i \in 1..Len(reported) : reported[i].channel = SideChannel
    /\ \A s \in Streams :
          /\ Cardinality(ReportsOf(s)) = Cardinality(FailedSaves(s))
          /\ ~sError[s].nil => sError[s].v.origin # "sink"
          /\ delivered[s] = IF TransformThrew(s)
                            THEN SubSeq(source[s], 1, Len(source[s]) - 1)
                            ELSE source[s]

C11_Witness ==
    \E s \in Streams :
        /\ sPc[s] = "closed"
        /\ HasType(source[s], "finish")
        /\ delivered[s] = source[s]
        /\ FailedSaves(s) # {}
        /\ \E i \in ReportsOf(s) : reported[i].message = "SQLITE_BUSY"
        /\ RowsOf(StreamCall(s)) = {}

\* C12: the step that transforms a chunk never calls save: it leaves the
\* table and the record of save calls as they are, forwards the chunk in
\* that same step (unless building the row raised) and, for a finish chunk,
\* only schedules the callback; save is called by a scheduled callback
\* alone, in a step that touches neither the chunks nor the stream's state.
C12_SaveRunsOffTheChunkPath ==
    [][ /\ \A s \in Streams :
              source'[s] # source[s] =>
                  /\ db' = db
                  /\ saveCalls' = saveCalls
                  /\ sError'[s] = sError[s] =>
                        /\ delivered'[s] = Append(delivered[s], Last(source'[s]))
                        /\ sPc'[s] = sPc[s]
                        /\ Len(immediates') =
                              Len(immediates) +
                              (IF Last(source'[s]).type = "finish" THEN 1 ELSE 0)
        /\ saveCalls' # saveCalls =>
              /\ immediates # <<>> /\ immediates' = Tail(immediates)
              /\ UNCHANGED <<source, delivered, sPc, sError>>
      ]_vars

\* the stream has completed with every chunk delivered while the save of
\* its row has not started
C12_Witness ==
    \E s \in Streams :
        /\ sPc[s] = "closed"
        /\ HasType(source[s], "finish")
        /\ delivered[s] = source[s]
        /\ saveCalls[s] = <<>>
        /\ \E i \in 1..Len(immediates) : immediates[i].stream = s

(***************************************************************************)
(* Error chunks                                                            *)
(***************************************************************************)
RECURSIVE LastErrorOf(_)
\* the payload of the last error chunk of a chunk sequence, if any
LastErrorOf(chunks) ==
    IF chunks = <<>> THEN Null
    ELSE IF Last(chunks).type = "error" THEN Last(chunks).error
    ELSE LastErrorOf(SubSeq(chunks, 1, Len(chunks) - 1))

\* every chunk that is not a finish chunk has been forwarded, in its place
ForwardedInPlace(s) ==
    \A i \in 1..Len(source[s]) :
        source[s][i].type # "finish"
        => Len(delivered[s]) >= i /\ delivered[s][i] = source[s][i]

UsageAbsent(row) ==
    /\ row.inputTokens.nil /\ row.outputTokens.nil /\ row.totalTokens.nil
    /\ row.cachedInputTokens.nil /\ row.reasoningTokens.nil
    /\ row.outputReasoningTokens.nil

ResponseViewAbsent(row) ==
    /\ row.outputText.nil /\ row.contentJson.nil /\ row.reasoningText.nil
    /\ UsageAbsent(row)

\* the request-side fields of a row are those of the call's params
RequestViewFrom(row, params) ==
    /\ row.tags = extractTags(params)
    /\ ~params.tools.nil => row.requestToolsJson = params.tools
    /\ ~params.temperature.nil => row.temperature = params.temperature
    /\ ~params.topP.nil => row.topP = params.topP
    /\ ~params.maxOutputTokens.nil => row.maxOutputTokens = params.maxOutputTokens

\* C14 (as claimed): a row handed to save never has both an error and a
\* response view (output text, content, reasoning, usage), whichever path
\* built it, and its request-side fields are those of the call.
C14_ErrorAndResponseViewExclusive ==
    /\ \A i \in 1..Len(gLog) :
          /\ gLog[i].row.error.nil \/ ResponseViewAbsent(gLog[i].row)
          /\ RequestViewFrom(gLog[i].row, gParams)
    /\ \A s \in Streams : \A i \in 1..Len(saveCalls[s]) :
          /\ saveCalls[s][i].row.error.nil \/ ResponseViewAbsent(saveCalls[s][i].row)
          /\ RequestViewFrom(saveCalls[s][i].row, sParams[s].v)

(***************************************************************************)
(* The error row of the one-shot path                                      *)
(***************************************************************************)
\* the rows built by the catch clause of the current invocation
ErrorRowsBuilt == {gLog[i].row : i \in {j \in 1..Len(gLog) : ~gLog[j].row.error.nil}}

\* how each source renders params.prompt as the input text of an error row
ErrorInputText(params) ==
    IF impl = "main"
    THEN (IF params.prompt.nil THEN Null
          ELSE Val(collapseInputTextFromPromptArray(params.prompt.v)))
    ELSE Val(RoleAndContentLines(params))

\* C15: every row built by the catch clause of wrapGenerate has the finish
\* reason "error", the {message, stack} of the error that was caught, no
\* output text, content, reasoning text, usage count, warnings or response
\* id, and the tags, declared tools, temperature, top-p, max output tokens,
\* input text and (usage-logger.ts) prompt of the call's params; the row
\* stored for it carries the same values.
C15_ErrorRowFromParamsAlone ==
    /\ \A row \in ErrorRowsBuilt :
          /\ row.finishReason = Val("error")
          /\ row.error = Val([message |-> gErr.v.message, stack |-> gErr.v.stack])
          /\ ResponseViewAbsent(row)
          /\ row.warnings.nil /\ row.responseId.nil
          /\ row.tags = extractTags(gParams)
          /\ row.requestToolsJson = gParams.tools
          /\ row.temperature = gParams.temperature
          /\ row.topP = gParams.topP
          /\ row.maxOutputTokens = gParams.maxOutputTokens
          /\ row.inputText = ErrorInputText(gParams)
          /\ row.promptJson = IF impl = "main" THEN gParams.prompt ELSE Null
    /\ \A r \in db :
          (r.call.path = "generate" /\ ~r.cols.error_json.nil)
          => /\ r.cols.finish_reason = Val("error")
             /\ r.cols.output_text.nil /\ r.cols.content_json.nil
             /\ r.cols.reasoning_text.nil
             /\ r.cols.input_tokens.nil /\ r.cols.output_tokens.nil
             /\ r.cols.total_tokens.nil /\ r.cols.response_id.nil

C15_Witness ==
    /\ GenerateSettled
    /\ gSettled = Rejected(MkError("provider", "boom"))
    /\ ~gParams.tools.nil /\ ~gParams.temperature.nil
    /\ \E r \in RowsOf(CurrentCall) :
          /\ r.cols.finish_reason = Val("error")
          /\ r.cols.tags_json = Val("[\"qbr\",\"analysis\"]")
          /\ r.cols.request_tools_json = Val("[{\"name\":\"lookup\"}]")
          /\ r.cols.temperature = Val(1)

(***************************************************************************)
(* The usage normalizer                                                    *)
(***************************************************************************)
Normalized(f) == Get(uU, f)
Raw(f) == Get(uBodyUsage, f)

\* C16: inputTokens is the normalized object's inputTokens when it has one
\* (also when that is 0), else its promptTokens, else the raw body's
\* input_tokens, else absent; outputTokens likewise from outputTokens,
\* completionTokens and output_tokens, each field on its own.
C16_TokenCountPrecedence ==
    uPc = "done" =>
        /\ ~Normalized("inputTokens").nil
              => uOut.v.inputTokens = Normalized("inputTokens")
        /\ (Normalized("inputTokens").nil /\ ~Normalized("promptTokens").nil)
              => uOut.v.inputTokens = Normalized("promptTokens")
        /\ (Normalized("inputTokens").nil /\ Normalized("promptTokens").nil)
              => uOut.v.inputTokens = Raw("input_tokens")
        /\ ~Normalized("outputTokens").nil
              => uOut.v.outputTokens = Normalized("outputTokens")
        /\ (Normalized("outputTokens").nil /\ ~Normalized("completionTokens").nil)
              => uOut.v.outputTokens = Normalized("completionTokens")
        /\ (Normalized("outputTokens").nil /\ Normalized("completionTokens").nil)
              => uOut.v.outputTokens = Raw("output_tokens")

\* normalized {inputTokens: 10}, raw body {input_tokens: 99, output_tokens: 5}
C16_Witness ==
    /\ uPc = "done"
    /\ uU = Val([EmptyUsage EXCEPT !.inputTokens = Val(10)])
    /\ uBodyUsage = Val([EmptyUsage EXCEPT !.input_tokens = Val(99),
                                           !.output_tokens = Val(5)])
    /\ uOut.v.inputTokens = Val(10)
    /\ uOut.v.outputTokens = Val(5)

\* C17: totalTokens is the normalized object's totalTokens, else the raw
\* body's total_tokens; when neither has one it is the sum of the resolved
\* inputTokens and outputTokens when both are present and absent otherwise.
C17_TotalTokensDerivedOnlyFromBoth ==
    uPc = "done" =>
        /\ ~Normalized("totalTokens").nil
              => uOut.v.totalTokens = Normalized("totalTokens")
        /\ (Normalized("totalTokens").nil /\ ~Raw("total_tokens").nil)
              => uOut.v.totalTokens = Raw("total_tokens")
        /\ (Normalized("totalTokens").nil /\ Raw("total_tokens").nil)
              => IF ~uOut.v.inputTokens.nil /\ ~uOut.v.outputTokens.nil
                 THEN uOut.v.totalTokens =
                          Val(uOut.v.inputTokens.v + uOut.v.outputTokens.v)
                 ELSE uOut.v.totalTokens = Null

\* only inputTokens: 10 anywhere, and no total: the total stays absent
C17_Witness ==
    /\ uPc = "done"
    /\ uU = Val([EmptyUsage EXCEPT !.inputTokens = Val(10)])
    /\ uBodyUsage = Null
    /\ uOut.v.inputTokens = Val(10)
    /\ uOut.v.totalTokens = Null

\* C18 (as claimed): whenever the normalized object has a value for a field
\* of the usage tuple, that value is the result, whatever the raw body
\* holds: cachedInputTokens from cachedInputTokens, reasoningTokens and
\* outputReasoningTokens from reasoningTokens.
C18_NormalizedWinsForEveryField ==
    uPc = "done" =>
        /\ ~Normalized("cachedInputTokens").nil
              => uOut.v.cachedInputTokens = Normalized("cachedInputTokens")
        /\ ~Normalized("reasoningTokens").nil
              => /\ uOut.v.reasoningTokens = Normalized("reasoningTokens")
                 /\ uOut.v.outputReasoningTokens = Normalized("reasoningTokens")
        /\ ~Normalized("totalTokens").nil
              => uOut.v.totalTokens = Normalized("totalTokens")
        /\ ~Normalized("inputTokens").nil
              => uOut.v.inputTokens = Normalized("inputTokens")
        /\ ~Normalized("outputTokens").nil
              => uOut.v.outputTokens = Normalized("outputTokens")

(***************************************************************************)
(* Usage of a finalized stream row                                         *)
(***************************************************************************)
\* the usage payload of the response body of a streaming call, if any
BodyUsageOf(s) == Get(Get(sRest[s].v.response, "body"), "usage")

\* C19 (as claimed): every finish chunk that has been transformed finalized
\* a row, without raising; the row's input token count is the one of the
\* chunk's usage payload when the chunk has one, and the one of the response
\* body's usage payload when it has none.
C19_FinishUsageOrBodyUsage ==
    \A s \in Streams : \A i \in 1..Len(source[s]) :
        source[s][i].type = "finish"
        => \E f \in Finalized(s) :
              /\ f.at = i
              /\ f.row.inputTokens =
                    IF ~source[s][i].usage.nil
                    THEN source[s][i].usage.v.inputTokens
                    ELSE Get(BodyUsageOf(s), "input_tokens")

(***************************************************************************)
(* Concurrent streams                                                      *)
(***************************************************************************)
RECURSIVE LastWarningsOf(_)
\* the warnings of the last stream-start chunk of a chunk sequence, if any
LastWarningsOf(chunks) ==
    IF chunks = <<>> THEN Null
    ELSE IF Last(chunks).type = "stream-start" THEN Last(chunks).warnings
    ELSE LastWarningsOf(SubSeq(chunks, 1, Len(chunks) - 1))

\* C20: with two streams of one middleware consumed in any interleaving,
\* the row finalized for a stream is made of that stream's own chunks
\* alone, in their arrival order: in usage-logger.ts its output text and
\* reasoning text are the stream's own text and reasoning fragments; in
\* part_006 its content_json trace, warnings and error are those of the
\* stream's own fragments, last stream-start chunk and last error chunk.
C20_AggregationStateIsPerCall ==
    \A s \in Streams : \A f \in Finalized(s) :
        IF impl = "main"
        THEN /\ f.row.outputText =
                   IF DeltasOf(Before(s, f), "text-delta") = "" THEN Null
                   ELSE Val(DeltasOf(Before(s, f), "text-delta"))
             /\ f.row.reasoningText =
                   IF HasType(Before(s, f), "reasoning-delta")
                   THEN Val(DeltasOf(Before(s, f), "reasoning-delta")) ELSE Null
        ELSE /\ f.row.contentJson = Val(Text(TraceDeltasOf(Before(s, f))))
             /\ f.row.warnings = LastWarningsOf(Before(s, f))
             /\ f.row.error = LastErrorOf(Before(s, f))

\* both streams have delivered fragments of their own and a finish chunk,
\* and the two rows, which differ, are both stored
C20_Witness ==
    /\ source[1] = <<TextDelta("Hel"), Finish(Val(Usage))>>
    /\ source[2] = <<ReasoningDelta("be"), Finish(Val(Usage))>>
    /\ finalized[1] # <<>> /\ finalized[2] # <<>>
    /\ finalized[1][1].row # finalized[2][1].row
    /\ RowsOf(StreamCall(1)) # {} /\ RowsOf(StreamCall(2)) # {}

(***************************************************************************)
(* Liveness of the scheduled save                                          *)
(***************************************************************************)
\* the k-th row finalized for stream s has been handed to save
SaveInvoked(s, k) ==
    /\ Len(saveCalls[s]) >= k
    /\ saveCalls[s][k].row = finalized[s][k].row

\* C21: with the event loop running its queued callbacks, every row
\* finalized by a finish chunk is eventually handed to save, whether the
\* consumer goes on reading or cancels, whatever the other stream does and
\* however the saves before it ended.
C21_FinalizedRowIsEventuallySaved ==
    \A s \in Streams : \A k \in 1..MaxFairChunks :
        (Len(finalized[s]) >= k) ~> SaveInvoked(s, k)

\* the consumer of stream 1 cancelled after the finish chunk, the save of
\* its row failed, and the row of stream 2, finalized later, is stored
C21_Witness ==
    /\ sPc[1] = "cancelled"
    /\ source[1] # <<>> /\ Last(source[1]).type = "finish"
    /\ SaveInvoked(1, 1) /\ ~saveCalls[1][1].ok
    /\ SaveInvoked(2, 1) /\ saveCalls[2][1].ok
    /\ RowsOf(StreamCall(1)) = {} /\ RowsOf(StreamCall(2)) # {}
    /\ immediates = <<>>

(***************************************************************************)
(* Order of persistence and outcome in the one-shot path                   *)
(***************************************************************************)
\* C22: when the caller of wrapGenerate has its outcome, the save has
\* already been made: a caller given the result finds the success row of
\* the call stored, its one save having completed; a caller given the error
\* doGenerate rejected with finds that save was called with the error row
\* of that error.
C22_PersistedBeforeOutcome ==
    /\ (~gOutcome.nil /\ gOutcome.v.resolved)
       => /\ Len(gLog) = 1 /\ gLog[1].ok /\ gLog[1].row.error.nil
          /\ \E r \in RowsOf(CurrentCall) : r.cols = Columns(gLog[1].row)
    /\ \A e \in UnderlyingErrors :
          (gOutcome = Rejected(e) /\ gSettled = Rejected(e))
          => /\ Len(gLog) = 1
             /\ gLog[1].row.error = Val(ErrorPayload(e))
             /\ gLog[1].ok => \E r \in RowsOf(CurrentCall) : IsErrorRow(r)

\* a call that resolved, then a call that rejected with the provider's
\* error: both rows are in the table when the second caller is settled
C22_Witness ==
    /\ gCall = 2
    /\ gOutcome = Rejected(MkError("provider", "boom"))
    /\ gSettled = gOutcome
    /\ \E r \in RowsOf(GenerateCall(1)) : ~IsErrorRow(r)
    /\ \E r \in RowsOf(GenerateCall(2)) : IsErrorRow(r)

(***************************************************************************)
(* Tag extraction                                                          *)
(***************************************************************************)
\* opt?.tags: the tags of providerOptions.usageLogger, or of
\* providerMetadata.usageLogger when providerOptions has no usageLogger
TagsGiven(params) ==
    Get(Coalesce(Get(params.providerOptions, "usageLogger"),
                 Get(params.providerMetadata, "usageLogger")), "tags")

\* C23 (as claimed): a list is returned as is, the empty list included; a
\* single string, whichever it is, becomes a one-element list; without tags
\* the result is absent.
C23_TagsListStringOrAbsent ==
    hPc = "done" =>
        LET tags == TagsGiven(hIn)
        IN  /\ tags.nil => hOut.v = Null
            /\ (~tags.nil /\ tags.v.isArray) => hOut.v = Val(tags.v.items)
            /\ (~tags.nil /\ ~tags.v.isArray) => hOut.v = Val(<<tags.v.str>>)

\* C23 (amended): a list is returned as is, the empty list included, so
\* that an explicit empty list differs from no tags; a single non-empty
\* string becomes a one-element list; the result is absent, never an empty
\* list, when there are no tags, and also when the tags are the empty
\* string.
C23_TagsListNonEmptyStringOrAbsent ==
    hPc = "done" =>
        LET tags == TagsGiven(hIn)
        IN  /\ tags.nil => hOut.v = Null
            /\ (~tags.nil /\ tags.v.isArray) => hOut.v = Val(tags.v.items)
            /\ (~tags.nil /\ ~tags.v.isArray /\ tags.v.str # "")
                  => hOut.v = Val(<<tags.v.str>>)
            /\ (~tags.nil /\ ~tags.v.isArray /\ tags.v.str = "") => hOut.v = Null
            /\ hOut.v = Val(<<>>) => (~tags.nil /\ tags.v.isArray /\ tags.v.items = <<>>)

\* usageLogger: { tags: [] } gives [], where no tags give undefined
C23_Witness ==
    /\ hPc = "done"
    /\ hIn.providerOptions = Val([usageLogger |-> Val([tags |-> Val(TagList(<<>>))])])
    /\ hOut.v = Val(<<>>)
    /\ extractTags(MkParams(Null, Null, Null)) = Null
    /\ extractTags(MkParams(Val(TagString("qbr")), Null, Null)) = Val(<<"qbr">>)

(***************************************************************************)
(* Input collation                                                         *)
(***************************************************************************)
\* one "[ROLE] content" line per message, joined by newlines
RoleLines(list) ==
    JoinWith([i \in 1..Len(list) |->
                 "[" \o ToUpperCase(list[i].role) \o "] " \o list[i].content], "\n")

\* the [SYSTEM] block of a system instruction
SystemBlockOf(text) == "\n[SYSTEM]\n" \o text \o "\n"

\* C24 (as claimed): collapseInputText never raises; given a message list
\* (params.prompt or params.messages) it returns the list's "[ROLE] content"
\* lines, after a [SYSTEM] block when params has a system instruction; else
\* given a prompt string, the [SYSTEM] block, "[PROMPT]" and the prompt;
\* else the rendering of the echoed request input when there is one; else
\* nothing.
C24_InputTextByPrecedence ==
    hPc = "done" =>
        LET params == hIn.params
            sys == IF params.system.nil THEN "" ELSE SystemBlockOf(params.system.v)
            input == BodyField(hIn.requestBody, "input")
        IN  /\ ~hOut.v.threw
            /\ IF ~params.prompt.nil \/ ~params.messages.nil
               THEN \E list \in {params.prompt, params.messages} \ {Null} :
                       hOut.v.value = Val(sys \o RoleLines(list.v))
               ELSE IF ~params.promptText.nil
               THEN hOut.v.value = Val(sys \o "[PROMPT]\n" \o params.promptText.v)
               ELSE IF ~input.nil THEN ~hOut.v.value.nil
               ELSE hOut.v.value.nil

(***************************************************************************)
(* Totality of the extraction helpers                                      *)
(***************************************************************************)
\* C25 (as claimed): whichever helper is called, and whatever params,
\* result and response body it is given, the call returns: it never raises.
C25_HelpersAreTotal ==
    hPc = "done" => ~hOut.v.threw

(***************************************************************************)
(* Coercion and encoding in the sink                                       *)
(***************************************************************************)
\* C26 (as claimed): whatever the type of a row field, save does not raise
\* and binds a storable primitive; a plain field is bound as null when it
\* is null or undefined, as itself when it is a string, number, bigint or
\* buffer, as 1 or 0 when it is a boolean, and as its text form otherwise.
C26_EveryFieldIsCoerced ==
    hPc = "done" =>
        /\ ~hOut.v.threw
        /\ hOut.v.bound.kind \in StorableKinds
        /\ hIn.field \in PlainFields =>
              hOut.v.bound =
                 IF hIn.value.kind \in {"null", "undefined"} THEN JsNull
                 ELSE IF hIn.value.kind \in {"string", "number", "bigint", "buffer"}
                      THEN hIn.value
                 ELSE IF hIn.value.kind = "boolean"
                      THEN JsNumber(IF hIn.value.truthy THEN "1" ELSE "0")
                 ELSE JsString(hIn.value.text)

\* C27 (as claimed): when a value of a serialized-text field cannot be
\* encoded, save binds the value's string form in its place, emits a
\* warning and inserts the row; it does not raise.
C27_UnencodableValueIsStoredAsText ==
    (/\ hPc = "done"
     /\ hIn.field \in JsonFields \cup JsonIfTruthyFields
     /\ hIn.value.truthy /\ hIn.value.json.nil)
    => /\ ~hOut.v.threw
       /\ hOut.v.warned
       /\ hOut.v.bound = JsString(hIn.value.text)
       /\ \E r \in db : r.cols = [field |-> hIn.field, value |-> hOut.v.bound]

(***************************************************************************)
(* Reading back what the sink wrote                                        *)
(***************************************************************************)
\* the column has been written and read back
ReadBack == hPc = "done" /\ db # {}

\* reading a column gives null for a null column, the decoded value for
\* JSON text, and the stored string itself for any other text
ParsedOrRaw ==
    ReadBack =>
        hOut.v.parsed =
            IF hOut.v.stored.kind = "null" THEN JsNull
            ELSE IF IsJsonText(hOut.v.stored.text) THEN JsonParse(hOut.v.stored.text)
            ELSE hOut.v.stored

\* C28 (as claimed): reading a column never fails, and whenever the sink
\* stored a text for a value, reading the column gives back that value.
C28_ReadBackGivesTheValueWritten ==
    /\ ParsedOrRaw
    /\ (ReadBack /\ hOut.v.stored.kind = "string") => hOut.v.parsed = hIn.value

\* C28 (amended): reading a column never fails: it gives null for a null
\* column, the decoded value for JSON text and the stored string itself
\* for any other text.  Reading gives back the value that was written when
\* that value is one JSON text denotes (null, a boolean, a number, a
\* string, a list or a plain object of such) and the sink encoded it; for a
\* value stored through the string fallback it gives the stored string, or
\* whatever value that string denotes as JSON text.
C28_ReadBackGivesTheJsonValueWritten ==
    /\ ParsedOrRaw
    /\ (ReadBack /\ hOut.v.stored.kind = "string" /\ hIn.value \in ParsedValues)
       => hOut.v.parsed = hIn.value
    /\ (ReadBack /\ hIn.value.json.nil /\ hOut.v.stored.kind = "string")
       => /\ hOut.v.stored = JsString(hIn.value.text)
          /\ hOut.v.parsed \in ParsedValues \cup {hOut.v.stored}

\* tags ["qbr"] written by db.ts are read back as ["qbr"]; a column holding
\* "[object Object]" is read as that string
C28_Witness ==
    /\ ReadBack
    /\ hIn.sink = "db.ts" /\ hIn.field = "tags"
    /\ hIn.value = JsStringList(<<"qbr">>)
    /\ hOut.v.stored = JsString("[\"qbr\"]")
    /\ hOut.v.parsed = JsStringList(<<"qbr">>)
    /\ safeParseJson(JsString("[object Object]")) = JsString("[object Object]")

RECURSIVE ToolCallTrace(_)
\* what a chunk sequence leaves in the trace, from its last chunk back:
\* the payload of every tool-input and text fragment, and a line for the
\* start and for the end of a tool input
ToolCallTrace(chunks) ==
    IF chunks = <<>> THEN ""
    ELSE ToolCallTrace(SubSeq(chunks, 1, Len(chunks) - 1))
         \o (CASE Last(chunks).type \in {"tool-input-delta", "text-delta"}
                    -> Last(chunks).delta
               [] Last(chunks).type = "tool-input-start" -> "Model Tool call\n"
               [] Last(chunks).type = "tool-input-end" -> "\n"
               [] OTHER -> "")

StoredFlag == (CHOOSE r \in db : r.cols.field = "parallelToolCalls").cols.value

\* C31: save stores the row's parallel-tool-calls flag as 1 when it is
\* true, 0 when it is false and null when it is null or missing; the flag
\* extractToolMeta puts in the row is the body's parallel_tool_calls when
\* that is a boolean and null otherwise, so that 0 is stored only for a
\* response body that says false.
C31_FlagStoredAsOneZeroOrNull ==
    hPc = "done" =>
        /\ ~hOut.v.saved.v.threw
        /\ db # {}
        /\ hOut.v.flag = JsBoolean(TRUE) => StoredFlag = JsNumber("1")
        /\ hOut.v.flag = JsBoolean(FALSE) => StoredFlag = JsNumber("0")
        /\ hOut.v.flag.kind \in {"null", "undefined"} => StoredFlag = JsNull
        /\ hIn.maker \in {"wrapGenerate", "wrapStream"} =>
              /\ hIn.bodyFlag = JsBoolean(TRUE) => StoredFlag = JsNumber("1")
              /\ hIn.bodyFlag = JsBoolean(FALSE) => StoredFlag = JsNumber("0")
              /\ hIn.bodyFlag.kind # "boolean" => StoredFlag = JsNull
        /\ StoredFlag = JsNumber("0") => hIn.bodyFlag = JsBoolean(FALSE)

\* a row whose body has no flag has been stored with a null column
C31_Witness ==
    /\ hPc = "done"
    /\ hIn.maker = "wrapStream"
    /\ hIn.bodyFlag = JsUndefined
    /\ db # {}
    /\ StoredFlag = JsNull

(***************************************************************************)
(* Properties of the dashboard handle                                      *)
(***************************************************************************)
\* C32 (as claimed): once the promise of any close() call has resolved, the
\* server no longer listens and the database handle is closed.
C32_ResolvedCloseMeansShutDown ==
    \A i \in 1..Len(closeCalls) :
        closeCalls[i] = "resolved" => ~server.listening /\ dashboardDb = "closed"

\* the shutdown is complete: the database handle has been closed
CompletedClose == dashboardDb = "closed" /\ dPc = "resolved"

\* C34: whatever close() calls, direct server.close() calls and 'close'
\* events occur, db.close() is called at most once, and a close() made
\* after the shutdown completed resolves at once and leaves the server and
\* the database as they are.
C34_DatabaseClosedAtMostOnce ==
    /\ [](dbCloses <= 1)
    /\ [][(CompletedClose /\ Len(closeCalls') > Len(closeCalls)) =>
             /\ closeCalls'[Len(closeCalls')] = "resolved"
             /\ UNCHANGED <<server, dashboardDb, dbCloses, closed>>]_vars

\* a close() resolved through its callback, and a later close() and a later
\* 'close' event (the owner closing the server again) found it closed
C34_Witness ==
    /\ Len(closeCalls) = 2
    /\ closeCalls[1] = "resolved"
    /\ closeCalls[2] = "resolved"
    /\ dbCloses = 1
    /\ ownerCloses = 1
    /\ server.pendingEmits = 0

\* C35 (as claimed): a startDashboardServer call that rejects leaves
\* neither an open database handle nor a listening server; with a missing
\* or non-existent path nothing was opened, and when listening failed the
\* database was closed and the rejection is the listen error.
C35_NoOpenResourceOnFailure ==
    dPc = "rejected" =>
        /\ dashboardDb # "open"
        /\ ~server.listening
        /\ dOptions.v.dbPath \in {"missing", "no such file"} =>
              dashboardDb = "none" /\ ~server.created
        /\ server.created => dashboardDb = "closed" /\ dError = Val(AddressInUse)

BodyMessage(result) ==
    LET body == Get(result.response, "body")
    IN  IF body.nil THEN Null
        ELSE IF body.v.choices.nil THEN Null
        ELSE IF body.v.choices.v = <<>> THEN Null
        ELSE body.v.choices.v[1].message

TextSegments(result) ==
    IF result.content.nil THEN <<>> ELSE SelectSeq(result.content.v, IsTextPart)

\* C36 (as claimed): the output text of a one-shot row is the result's
\* top-level text when that is not empty; else the concatenation, in order,
\* of the text segments of the result's content; else the message content of
\* the response body; else absent.  The reasoning text is the one of the
\* response body, whichever source gave the output text.
C36_OutputTextByPrecedence ==
    hPc = "done" =>
        LET result == hIn.result
        IN  /\ hOut.v.outputText =
                  IF ~result.text.nil /\ result.text.v # "" THEN result.text
                  ELSE IF TextSegments(result) # <<>>
                       THEN Val(Join(TextsOf(TextSegments(result))))
                  ELSE Get(BodyMessage(result), "content")
            /\ hOut.v.reasoningText = Get(BodyMessage(result), "reasoning_content")

====
